---- MODULE Spec2Model ----
(***************************************************************************)
(* A model of the uWebSockets.js adapter for Hono (src/src/uws.ts): the    *)
(* lightweight response and its fast-path cache, the two response writers, *)
(* the HTTP request handler with its abort flag, the lazy request, the     *)
(* request body bridge, the URL reconstruction, and the WebSocket upgrade  *)
(* bridge with its process-wide handler registry.                          *)
(***************************************************************************)
EXTENDS Integers, Sequences, FiniteSets, TLC

VARIABLES
  pc,         \* HTTP: per connection, where its request handler stands
  aborted,    \* HTTP: per connection, the `aborted` flag of the handler closure
  abortedAt,  \* HTTP (history): the pc at which the abort notification arrived
  resp,       \* HTTP: per connection, the response object the application gave
  orig,       \* HTTP (history): that response as it was when the application gave it
  asyncCtx,   \* HTTP: per connection, the locals of writeResponseAsync across its await
  wr,         \* HTTP: per connection, the write batches (corks) issued on res
  unhandled,  \* HTTP: per connection, the rejections no continuation handled
  wsHandlers, \* WebSocket: the process-wide registry, path -> handler factory
  regLast,    \* WebSocket (history): per path, the factory registered last
  sess,       \* WebSocket: per session, the user data, the open sequence and its history
  lazy,       \* Lazy request: one lazy request object and the history of its reads
  rsp,        \* Response: one lightweight response and what each writer wrote for it
  bs,         \* Body bridge: one request's body stream, its transport and its consumer
  urlv        \* URL: the last URL string a handler built, with what it was built from

httpVars == <<pc, aborted, abortedAt, resp, orig, asyncCtx, wr, unhandled>>

regVars == <<wsHandlers, regLast>>

wsVars == <<regVars, sess>>

vars == <<httpVars, wsVars, lazy, rsp, bs, urlv>>

notHttp == <<wsVars, lazy, rsp, bs, urlv>>

notWs == <<httpVars, lazy, rsp, bs, urlv>>

notLazy == <<httpVars, wsVars, rsp, bs, urlv>>

notRsp == <<httpVars, wsVars, lazy, bs, urlv>>

notBody == <<httpVars, wsVars, lazy, rsp, urlv>>

notUrl == <<httpVars, wsVars, lazy, rsp, bs>>

----------------------------------------------------------------------------
(* Bounds *)

NumConns == 2

Conns == 1..NumConns

----------------------------------------------------------------------------
(* Optional values: <<>> is undefined/null, <<x>> is x. *)

Nil == <<>>

Some(x) == <<x>>

\* F applied to the value of v, with v evaluated once (a local constant).
Bind(v, F(_)) == CHOOSE out \in {F(x) : x \in {v}} : TRUE

----------------------------------------------------------------------------
(* Header names and values.  A header value is a sequence of tokens, so    *)
(* that startsWith and includes are computed and not assumed.              *)

Lower(n) ==
  CASE n = "A" -> "a"
    [] n = "B" -> "b"
    [] n = "Content-Type" -> "content-type"
    [] n = "X-A" -> "x-a"
    [] n = "X-B" -> "x-b"
    [] OTHER -> n

\* The sort order of the lower-cased names (Headers iterates sorted by name).
Rank(n) ==
  CASE n = "a" -> 1
    [] n = "b" -> 2
    [] n = "content-type" -> 3
    [] n = "host" -> 4
    [] n = "upgrade" -> 5
    [] n = "x-a" -> 6
    [] n = "x-b" -> 7
    [] OTHER -> 8

RECURSIVE JoinFrom(_, _)
\* The values vs[i..] combined the way Headers combines the values of one
\* name: v1, ", ", v2 ...
JoinFrom(vs, i) ==
  IF i > Len(vs) THEN <<>>
  ELSE IF i = Len(vs) THEN vs[i]
  ELSE vs[i] \o <<", ">> \o JoinFrom(vs, i + 1)

\* The values given for a (lower-cased) name, in the order given.
SelectValues(pairs, name) ==
  LET at == SelectSeq([i \in 1..Len(pairs) |-> i], LAMBDA i : Lower(pairs[i][1]) = name)
  IN [k \in 1..Len(at) |-> pairs[at[k]][2]]

RECURSIVE SortNames(_)
SortNames(S) ==
  IF S = {} THEN <<>>
  ELSE LET m == CHOOSE x \in S : \A y \in S : Rank(x) <= Rank(y)
       IN <<m>> \o SortNames(S \ {m})

\* new Headers(init): names lower-cased, one entry per name, sorted by name,
\* the values of a repeated name joined with ", ".
NewHeaders(pairs) ==
  Bind(SortNames({Lower(pairs[i][1]) : i \in 1..Len(pairs)}),
       LAMBDA order :
         [i \in 1..Len(order) |->
            <<order[i], Bind(SelectValues(pairs, order[i]), LAMBDA vs : JoinFrom(vs, 1))>>])

\* A headers value as the code holds it: a Headers object or a plain record.
HeadersObj(list) == [kind |-> "Headers", list |-> list]

RecordObj(list) == [kind |-> "record", list |-> list]

\* Headers.get(name): the (combined) value, or Nil.
HeadersGet(list, name) ==
  IF \E i \in 1..Len(list) : list[i][1] = Lower(name)
  THEN Some(list[CHOOSE i \in 1..Len(list) : list[i][1] = Lower(name)][2])
  ELSE Nil

----------------------------------------------------------------------------
(* Bodies and response inits. *)

NullBody == [kind |-> "null", data |-> "", type |-> <<>>]

StringBody(s) == [kind |-> "string", data |-> s, type |-> <<>>]

BytesBody(s) == [kind |-> "bytes", data |-> s, type |-> <<>>]

StreamBody(s) == [kind |-> "stream", data |-> s, type |-> <<>>]

BlobBody(s, t) == [kind |-> "blob", data |-> s, type |-> t]

\* A ResponseInit: status 0 stands for "not given"; headers kind is one of
\* "none", "record", "array", "Headers".
NoHeaders == [kind |-> "none", list |-> <<>>]

MakeInit(status, headers) == [status |-> status, headers |-> headers]

NoInit == MakeInit(0, NoHeaders)

DefaultStatus == 200

StatusSwitching == 101

TextPlain == <<"text/", "plain">>

TextPlainUtf8 == <<"text/", "plain", ";charset=UTF-8">>

AppJson == <<"application/json">>

OctetStream == <<"application/", "octet-stream">>

\* application/ld+json;charset=utf-8
LdJsonCharset == <<"application/", "ld", "+json", ";charset=utf-8">>

\* multipart/related;type=application/json
RelatedJson == <<"multipart/", "related;type=", "application/json">>

\* status.toString()
StatusString(s) ==
  CASE s = 200 -> "200"
    [] s = 101 -> "101"
    [] s = 404 -> "404"
    [] s = 500 -> "500"
    [] OTHER -> "?"

----------------------------------------------------------------------------
(* The platform's Response (GlobalResponse), as far as the adapter reads it. *)

\* new GlobalResponse(body, init): the status, the headers of init as a
\* Headers object, and, when init names no content type, the content type
\* the body implies (a string body: text/plain;charset=UTF-8; a typed blob:
\* its type).
GlobalResponse(body, init) ==
  LET implied == IF body.kind = "string" THEN Some(TextPlainUtf8)
                 ELSE IF body.kind = "blob" /\ body.type # <<>> THEN Some(body.type)
                 ELSE Nil
  IN [status |-> IF init.status = 0 THEN DefaultStatus ELSE init.status,
      headers |-> Bind(NewHeaders(init.headers.list),
                       LAMBDA given :
                         IF implied # Nil /\ HeadersGet(given, "content-type") = Nil
                         THEN NewHeaders(given \o <<<<"content-type", implied[1]>>>>)
                         ELSE given),
      body |-> body]

----------------------------------------------------------------------------
(* LightweightResponse *)

\* The kinds of body the constructor caches.
CachedKinds == {"null", "string", "stream", "blob", "bytes"}

\* constructor(body, init)
LightweightResponse(body, init) ==
  [body |-> body,
   init |-> init,
   responseCache |-> Nil,
   builds |-> 0,
   cacheKey |->
     IF body.kind \in CachedKinds
     THEN Some([status |-> IF init.status # 0 THEN init.status ELSE DefaultStatus,
                body |-> IF body.kind = "null" THEN StringBody("") ELSE body,
                headers |->
                  IF init.headers.kind = "Headers" THEN HeadersObj(init.headers.list)
                  ELSE IF init.headers.kind = "array"
                       THEN HeadersObj(NewHeaders(init.headers.list))
                  ELSE IF init.headers.kind = "record"
                       THEN RecordObj(init.headers.list)
                  ELSE RecordObj(<<>>)])
     ELSE Nil]

\* [getResponseCache]() leaving the fast-path triple in place.
GetResponseCacheKeepKey(r) ==
  [r EXCEPT !.responseCache = IF r.responseCache # Nil THEN r.responseCache
                              ELSE Some(GlobalResponse(r.body, r.init)),
            !.builds = IF r.responseCache # Nil THEN @ ELSE @ + 1]

\* [getResponseCache](): delete this[cacheKey]; build the full response once
\* (builds counts the full responses built for this object).
GetResponseCache(r) ==
  [r EXCEPT !.cacheKey = Nil,
            !.responseCache = IF r.responseCache # Nil THEN r.responseCache
                              ELSE Some(GlobalResponse(r.body, r.init)),
            !.builds = IF r.responseCache # Nil THEN @ ELSE @ + 1]

\* get headers(): with a cache, turn cache[2] into a Headers object in place;
\* without one, go through the full response.
HeadersAccess(r) ==
  IF r.cacheKey # Nil
  THEN IF r.cacheKey[1].headers.kind # "Headers"
       THEN [r EXCEPT !.cacheKey[1].headers = HeadersObj(NewHeaders(r.cacheKey[1].headers.list))]
       ELSE r
  ELSE GetResponseCache(r)

\* The Headers object the headers getter returns (its entries in iteration order).
HeadersOf(r) ==
  Bind(HeadersAccess(r),
       LAMBDA r1 : IF r1.cacheKey # Nil THEN r1.cacheKey[1].headers.list
                   ELSE r1.responseCache[1].headers)

\* Headers.set(name, value) on the entries of a Headers object.
HeadersSet(list, name, value) ==
  NewHeaders(SelectSeq(list, LAMBDA e : e[1] # Lower(name)) \o <<<<name, value>>>>)

\* response.headers.set(name, value): the headers getter, then set on the
\* object it returned. With a triple that object is cache[2], which is the
\* Headers object of init itself when init.headers is one (the constructor
\* keeps the reference) and an object of its own otherwise; without a
\* triple it is the Headers object of the full response.
SetHeader(r, name, value) ==
  Bind(HeadersAccess(r),
       LAMBDA r1 :
         IF r1.cacheKey # Nil
         THEN [r1 EXCEPT !.cacheKey[1].headers.list = HeadersSet(@, name, value),
                         !.init.headers.list =
                           IF r1.init.headers.kind = "Headers"
                           THEN HeadersSet(@, name, value) ELSE @]
         ELSE [r1 EXCEPT !.responseCache[1].headers = HeadersSet(@, name, value)])

\* get status()
StatusOf(r) ==
  IF r.cacheKey # Nil THEN r.cacheKey[1].status
  ELSE GetResponseCache(r).responseCache[1].status

----------------------------------------------------------------------------
(* Writers.  A write call is a record [op, a, b]; a batch is the sequence  *)
(* of calls made inside one res.cork().                                    *)

WriteStatus(s) == [op |-> "writeStatus", a |-> StatusString(s), b |-> <<>>]

WriteHeader(k, v) == [op |-> "writeHeader", a |-> k, b |-> v]

\* res.end(body): b is <<kind, data>>; res.end() has kind "none".
End(kind, data) == [op |-> "end", a |-> kind, b |-> <<data>>]

\* writeHeaders(res, headers)
WriteHeaders(headers) ==
  [i \in 1..Len(headers.list) |-> WriteHeader(headers.list[i][1], headers.list[i][2])]

\* A fast path that writes string bodies only.
WriteResponseViaCacheStringsOnly(cache, ab) ==
  IF ab THEN [handled |-> TRUE, batch |-> <<>>]
  ELSE IF cache.body.kind = "string"
  THEN [handled |-> TRUE,
        batch |-> <<WriteStatus(cache.status)>> \o WriteHeaders(cache.headers)
                    \o <<End("string", cache.body.data)>>]
  ELSE [handled |-> FALSE, batch |-> <<>>]

\* writeResponseViaCache(res, cache, aborted): whether it handled the
\* response, and the batch it wrote (<<>>: nothing written).
WriteResponseViaCache(cache, ab) ==
  IF ab THEN [handled |-> TRUE, batch |-> <<>>]
  ELSE IF cache.body.kind = "string"
  THEN [handled |-> TRUE,
        batch |-> <<WriteStatus(cache.status)>> \o WriteHeaders(cache.headers)
                    \o <<End("string", cache.body.data)>>]
  ELSE IF cache.body.kind = "bytes"
  THEN [handled |-> TRUE,
        batch |-> <<WriteStatus(cache.status)>> \o WriteHeaders(cache.headers)
                    \o <<End("bytes", cache.body.data)>>]
  ELSE [handled |-> FALSE, batch |-> <<>>]

\* A content-type test that looks for application/json anywhere and for
\* +json at the end only.
IsTextualEndsWith(ct) ==
  /\ ct # Nil
  /\ ct[1] # <<>>
  /\ \/ ct[1][1] = "text/"
     \/ \E i \in 1..Len(ct[1]) : ct[1][i] = "application/json"
     \/ ct[1][Len(ct[1])] = "+json"

\* The content-type test of writeResponseAsync: startsWith("text/"),
\* startsWith("application/json"), includes("+json").
IsTextual(ct) ==
  /\ ct # Nil
  /\ ct[1] # <<>>
  /\ \/ ct[1][1] = "text/"
     \/ ct[1][1] = "application/json"
     \/ \E i \in 1..Len(ct[1]) : ct[1][i] = "+json"

\* writeResponseAsync up to its await: the abort check, the content type
\* and status it reads, and the text()/arrayBuffer() call it awaits.
AsyncBegin(r, ab) ==
  IF ab THEN [pc |-> "done", resp |-> r, ctx |-> Nil]
  ELSE Bind(HeadersAccess(r),
            LAMBDA r1 :
              [pc |-> "bodyPending",
               resp |-> GetResponseCache(r1),
               ctx |-> Bind(HeadersOf(r1),
                            LAMBDA hl :
                              Bind(HeadersGet(hl, "content-type"),
                                   LAMBDA ct : Some([status |-> StatusOf(r1),
                                                     contentType |-> ct,
                                                     text |-> IsTextual(ct)])))])

\* AsyncFinish writing as if the flag were still the one read before the
\* await.
AsyncFinishNoRecheck(r, ctx, ab) ==
  Bind(HeadersOf(r),
       LAMBDA hl :
         LET hs == [i \in 1..Len(hl) |-> WriteHeader(hl[i][1], hl[i][2])]
             data == r.responseCache[1].body.data
         IN IF ctx.text
            THEN <<WriteStatus(ctx.status)>> \o hs \o <<End("string", data)>>
            ELSE <<WriteStatus(ctx.status)>> \o hs \o
                 <<IF data # "" THEN End("bytes", data) ELSE End("none", "")>>)

\* AsyncFinish ending the response only when the resolved body has bytes.
AsyncFinishNoEmptyEnd(r, ctx, ab) ==
  IF ab THEN <<>>
  ELSE Bind(HeadersOf(r),
            LAMBDA hl :
              LET hs == [i \in 1..Len(hl) |-> WriteHeader(hl[i][1], hl[i][2])]
                  data == r.responseCache[1].body.data
              IN IF ctx.text
                 THEN <<WriteStatus(ctx.status)>> \o hs \o <<End("string", data)>>
                 ELSE <<WriteStatus(ctx.status)>> \o hs \o
                      (IF data # "" THEN <<End("bytes", data)>> ELSE <<>>))

\* writeResponseAsync after its await: the re-check of the abort flag and
\* the one cork.
AsyncFinish(r, ctx, ab) ==
  IF ab THEN <<>>
  ELSE Bind(HeadersOf(r),
            LAMBDA hl :
              LET hs == [i \in 1..Len(hl) |-> WriteHeader(hl[i][1], hl[i][2])]
                  data == r.responseCache[1].body.data
              IN IF ctx.text
                 THEN <<WriteStatus(ctx.status)>> \o hs \o <<End("string", data)>>
                 ELSE <<WriteStatus(ctx.status)>> \o hs \o
                      <<IF data # "" THEN End("bytes", data) ELSE End("none", "")>>)

\* Dispatch without the return after the fast path: the response written
\* from the cache is handed to the async writer as well.
DispatchNoReturn(r, ab) ==
  Bind(AsyncBegin(r, ab),
       LAMBDA a :
         [pc |-> a.pc, resp |-> a.resp, ctx |-> a.ctx,
          batch |-> IF r.cacheKey # Nil THEN WriteResponseViaCache(r.cacheKey[1], ab).batch
                    ELSE <<>>])

\* Dispatch with no fallback: a response the fast path does not handle is
\* left unwritten.
DispatchFastOnly(r, ab) ==
  IF r.cacheKey # Nil /\ WriteResponseViaCache(r.cacheKey[1], ab).handled
  THEN [pc |-> "done", resp |-> r, ctx |-> Nil,
        batch |-> WriteResponseViaCache(r.cacheKey[1], ab).batch]
  ELSE [pc |-> "done", resp |-> r, ctx |-> Nil, batch |-> <<>>]

\* The handler's choice between the fast path and the async path
\* (createUwsServer, the cacheKey test and what follows it).
Dispatch(r, ab) ==
  IF r.cacheKey # Nil /\ WriteResponseViaCache(r.cacheKey[1], ab).handled
  THEN [pc |-> "done", resp |-> r, ctx |-> Nil,
        batch |-> WriteResponseViaCache(r.cacheKey[1], ab).batch]
  ELSE Bind(AsyncBegin(r, ab),
            LAMBDA a : [pc |-> a.pc, resp |-> a.resp, ctx |-> a.ctx, batch |-> <<>>])

----------------------------------------------------------------------------
(* The HTTP handler (uwsApp.any).  One connection carries one request.     *)

\* What the application may hand back: lightweight responses as constructed,
\* and responses whose full object was already read (no cache left), which
\* is also what a platform Response looks like to the handler.
HttpBodies == {NullBody, StringBody("hi"), BytesBody("hi"), StreamBody("hi"), StreamBody("")}

HttpInits == {NoInit, MakeInit(404, [kind |-> "record", list |-> <<<<"Content-Type", AppJson>>>>])}

AppResponses ==
  {LightweightResponse(b, i) : b \in HttpBodies, i \in HttpInits}
    \cup {GetResponseCache(LightweightResponse(b, NoInit)) : b \in HttpBodies}
    \cup {LightweightResponse(NullBody, MakeInit(StatusSwitching, NoHeaders)),
          LightweightResponse(BlobBody("hi", <<"image/", "png">>), NoInit)}

\* wr[c] with a batch appended (an empty batch: nothing was written).
Written(c, batch) == IF batch = <<>> THEN wr[c] ELSE Append(wr[c], batch)

\* ThenCallback working with the flag as it was when the handler returned.
ThenCallbackStaleFlag(r, ab) == Dispatch(r, FALSE)

\* The continuation of the application's promise (honoResponse.then).
ThenCallback(r, ab) ==
  IF ab THEN [pc |-> "done", resp |-> r, ctx |-> Nil, batch |-> <<>>]
  ELSE Dispatch(r, ab)

\* The handler up to its return: the application is called, and either
\* answers at once (fast path, or async path up to its await) or gives a
\* promise.
Request(c) ==
  /\ pc[c] = "idle"
  /\ \/ \E r \in AppResponses :
          \E d \in {Dispatch(r, aborted[c])} :
             /\ pc' = [pc EXCEPT ![c] = d.pc]
             /\ resp' = [resp EXCEPT ![c] = Some(d.resp)]
             /\ orig' = [orig EXCEPT ![c] = Some(r)]
             /\ asyncCtx' = [asyncCtx EXCEPT ![c] = d.ctx]
             /\ wr' = [wr EXCEPT ![c] = Written(c, d.batch)]
     \/ /\ pc' = [pc EXCEPT ![c] = "fetchPending"]
        /\ UNCHANGED <<resp, orig, asyncCtx, wr>>
  /\ UNCHANGED <<aborted, abortedAt, unhandled>>
  /\ UNCHANGED notHttp

\* The application's promise resolves with a response.
FetchResolve(c) ==
  /\ pc[c] = "fetchPending"
  /\ \E r \in AppResponses :
       \E d \in {ThenCallback(r, aborted[c])} :
          /\ pc' = [pc EXCEPT ![c] = d.pc]
          /\ resp' = [resp EXCEPT ![c] = Some(d.resp)]
          /\ orig' = [orig EXCEPT ![c] = Some(r)]
          /\ asyncCtx' = [asyncCtx EXCEPT ![c] = d.ctx]
          /\ wr' = [wr EXCEPT ![c] = Written(c, d.batch)]
  /\ UNCHANGED <<aborted, abortedAt, unhandled>>
  /\ UNCHANGED notHttp

\* The application's promise rejects: honoResponse.then has no second
\* argument and no catch follows it.
FetchReject(c) ==
  /\ pc[c] = "fetchPending"
  /\ pc' = [pc EXCEPT ![c] = "done"]
  /\ unhandled' = [unhandled EXCEPT ![c] = @ \cup {"fetch"}]
  /\ UNCHANGED <<aborted, abortedAt, resp, orig, asyncCtx, wr>>
  /\ UNCHANGED notHttp

\* BodyResolve lowering the connection's flag once the writer has ended.
BodyResolveClearsFlag(c) ==
  /\ pc[c] = "bodyPending"
  /\ pc' = [pc EXCEPT ![c] = "done"]
  /\ \E batch \in {AsyncFinish(resp[c][1], asyncCtx[c][1], aborted[c])} :
       wr' = [wr EXCEPT ![c] = Written(c, batch)]
  /\ aborted' = [aborted EXCEPT ![c] = FALSE]
  /\ UNCHANGED <<abortedAt, resp, orig, asyncCtx, unhandled>>
  /\ UNCHANGED notHttp

\* text()/arrayBuffer() resolves: the rest of writeResponseAsync.
BodyResolve(c) ==
  /\ pc[c] = "bodyPending"
  /\ pc' = [pc EXCEPT ![c] = "done"]
  /\ \E batch \in {AsyncFinish(resp[c][1], asyncCtx[c][1], aborted[c])} :
       wr' = [wr EXCEPT ![c] = Written(c, batch)]
  /\ UNCHANGED <<aborted, abortedAt, resp, orig, asyncCtx, unhandled>>
  /\ UNCHANGED notHttp

\* A failed body resolution answered with an error response.
BodyRejectWritesError(c) ==
  /\ pc[c] = "bodyPending"
  /\ resp[c][1].body.kind = "stream"
  /\ pc' = [pc EXCEPT ![c] = "done"]
  /\ unhandled' = [unhandled EXCEPT ![c] = @ \cup {"body"}]
  /\ wr' = [wr EXCEPT ![c] = Written(c, <<WriteStatus(500), End("none", "")>>)]
  /\ UNCHANGED <<aborted, abortedAt, resp, orig, asyncCtx>>
  /\ UNCHANGED notHttp

\* text()/arrayBuffer() rejects (the stream errors): writeResponseAsync's
\* promise rejects, and the handler never attached anything to it.
BodyReject(c) ==
  /\ pc[c] = "bodyPending"
  /\ resp[c][1].body.kind = "stream"
  /\ pc' = [pc EXCEPT ![c] = "done"]
  /\ unhandled' = [unhandled EXCEPT ![c] = @ \cup {"body"}]
  /\ UNCHANGED <<aborted, abortedAt, resp, orig, asyncCtx, wr>>
  /\ UNCHANGED notHttp

\* An abort notification that sets one flag shared by every connection.
AbortShared(c) ==
  /\ pc[c] # "idle"
  /\ wr[c] = <<>>
  /\ ~aborted[c]
  /\ aborted' = [d \in Conns |-> TRUE]
  /\ abortedAt' = [abortedAt EXCEPT ![c] = pc[c]]
  /\ UNCHANGED <<pc, resp, orig, asyncCtx, wr, unhandled>>
  /\ UNCHANGED notHttp

\* res.onAborted: the transport reports the connection gone, at any time
\* between the handler's return and the response's end.
Abort(c) ==
  /\ pc[c] # "idle"
  /\ wr[c] = <<>>
  /\ ~aborted[c]
  /\ aborted' = [aborted EXCEPT ![c] = TRUE]
  /\ abortedAt' = [abortedAt EXCEPT ![c] = pc[c]]
  /\ UNCHANGED <<pc, resp, orig, asyncCtx, wr, unhandled>>
  /\ UNCHANGED notHttp

HttpInit ==
  /\ pc = [c \in Conns |-> "idle"]
  /\ aborted = [c \in Conns |-> FALSE]
  /\ abortedAt = [c \in Conns |-> "never"]
  /\ resp = [c \in Conns |-> Nil]
  /\ orig = [c \in Conns |-> Nil]
  /\ asyncCtx = [c \in Conns |-> Nil]
  /\ wr = [c \in Conns |-> <<>>]
  /\ unhandled = [c \in Conns |-> {}]

----------------------------------------------------------------------------
(* The WebSocket upgrade bridge (uwsApp.ws) and the handler registry.      *)

NumSessions == 1

Sessions == 1..NumSessions

\* How many messages the transport delivers on one session at most.
MaxMsgs == 2

ClosePolicy == 1008

CloseInternal == 1011

CloseNormal == 1000

Protocol == "http"

Host == "localhost"

\* The request targets of the upgrade attempts: <<path, query>>.
WsTargets ==
  {<<"/ws", "b=1">>, <<"/quiet", "">>, <<"/bare", "">>, <<"/plain", "">>, <<"/err", "">>}

WsPaths == {t[1] : t \in WsTargets}

\* The header pairs of an upgrade request, as req.forEach yields them.
UpgradeHeaders == <<<<"host", <<Host>>>>, <<"upgrade", <<"websocket">>>>>>

\* A URL string with the separator and the query appended whatever the query.
UrlStringAlwaysQuery(protocol, host, path, query) ==
  <<protocol, "://", host, path, "?", query>>

\* The URL string both handlers build: `${protocol}://${host}${path}`, with
\* `?${query}` when the query is not empty.
UrlString(protocol, host, path, query) ==
  IF query # "" THEN <<protocol, "://", host, path, "?", query>>
  ELSE <<protocol, "://", host, path>>

\* new URL(url).pathname
Pathname(url) == url[4]

\* The callback sets the handler factories of the application return.
EventsOf(h) ==
  CASE h = "full" -> [onOpen |-> TRUE, onMessage |-> TRUE, onClose |-> TRUE]
    [] OTHER -> [onOpen |-> FALSE, onMessage |-> FALSE, onClose |-> FALSE]

\* The application: /ws and /quiet are declared with upgradeWebSocket
\* (their middleware registers the handler and answers 101), /bare answers
\* 101 without registering anything, /err rejects, anything else is a 404.
AppRoute(path) ==
  CASE path = "/ws" -> [kind |-> "ws", handler |-> "full", status |-> StatusSwitching]
    [] path = "/quiet" -> [kind |-> "ws", handler |-> "quiet", status |-> StatusSwitching]
    [] path = "/bare" -> [kind |-> "bare", handler |-> "", status |-> StatusSwitching]
    [] path = "/err" -> [kind |-> "reject", handler |-> "", status |-> 500]
    [] OTHER -> [kind |-> "plain", handler |-> "", status |-> 404]

\* A registration that keeps the entry a path already has.
RegisterKeepFirst(reg, path, handler) ==
  IF reg[path] # Nil THEN reg ELSE [reg EXCEPT ![path] = Some(handler)]

\* wsHandlers.set(url.pathname, handler), the middleware upgradeWebSocket returns.
Register(reg, path, handler) == [reg EXCEPT ![path] = Some(handler)]

\* The factories the application declares with upgradeWebSocket for a
\* path: /ws has two declarations (two methods), the synthetic GET pass
\* reaching the first.
RouteFactories(path) ==
  CASE path = "/ws" -> {"full", "quiet"}
    [] path = "/quiet" -> {"quiet"}
    [] OTHER -> {}

\* The registry after the application handled a request for `path`.
AppPass(reg, path) ==
  IF AppRoute(path).kind = "ws" THEN Register(reg, path, AppRoute(path).handler)
  ELSE reg

\* The message the transport delivers i-th on a session.
MsgAt(i) ==
  [data |-> CASE i % 3 = 1 -> "a" [] i % 3 = 2 -> "b" [] OTHER -> "c",
   isBinary |-> (i % 2 = 0)]

\* An entry of a session's history of calls: application callbacks, the
\* factory, and ws.end.
Call(ev, code, kind, data) == [ev |-> ev, code |-> code, kind |-> kind, data |-> data]

\* new TextDecoder().decode(message)
Decode(bytes) == [kind |-> "string", data |-> bytes]

\* The user data of a session before its upgrade, with its history fields.
NoSession ==
  [pc |-> "none", url |-> <<>>, headers |-> <<>>, events |-> Nil, context |-> FALSE,
   handler |-> Nil,
   closed |-> FALSE, exc |-> FALSE,
   log |-> <<>>, recv |-> 0, recvAfterOpen |-> <<>>,
   attempts |-> 0, req |-> Nil, upgrades |-> 0, appCalls |-> 0, lookup1 |-> "none", lookup2 |-> "none", status |-> 0,
   closedBy |-> "none", closeCode |-> 0, closeReason |-> "", eventsAtClose |-> Nil,
   threw |-> {}, escaped |-> {}, logged |-> 0]

\* The close callback (close: (ws, code, message) => ...).
CloseCbEmptyReason(x, code, message, throws) ==
  IF x.events # Nil /\ x.events[1].onClose
  THEN [x EXCEPT !.log = Append(@, Call("onClose", code, "string", "")),
                 !.threw = IF throws THEN @ \cup {"onClose"} ELSE @,
                 !.exc = throws]
  ELSE x

CloseCb(x, code, message, throws) ==
  IF x.events # Nil /\ x.events[1].onClose
  THEN [x EXCEPT !.log = Append(@, Call("onClose", code, "string", Decode(message).data)),
                 !.threw = IF throws THEN @ \cup {"onClose"} ELSE @,
                 !.exc = throws]
  ELSE x

\* ws.end(code, reason): on a closed socket the transport throws; on an
\* open one it closes the session and calls the close callback at once.
WsEnd(x, code, reason, throws) ==
  IF x.closed
  THEN [x EXCEPT !.log = Append(@, Call("end", code, "closed", reason)), !.exc = TRUE]
  ELSE CloseCb([x EXCEPT !.log = Append(@, Call("end", code, "open", reason)),
                         !.closed = TRUE, !.closedBy = "server",
                         !.closeCode = code, !.closeReason = reason,
                         !.eventsAtClose = x.events],
               code, reason, throws)

\* The end of the async open callback: what it raised and did not catch
\* is an unhandled rejection.
OpenReturns(x) ==
  [x EXCEPT !.pc = IF x.events # Nil /\ ~x.exc /\ "open" \notin x.escaped /\ x.logged = 0
                   THEN "opened" ELSE "ended",
            !.escaped = IF x.exc THEN @ \cup {"open"} ELSE @,
            !.exc = FALSE]

\* catch (error) { console.error(...); ws.end(1011, "Internal Error"); }
Catch(x, throws) ==
  WsEnd([x EXCEPT !.exc = FALSE, !.logged = @ + 1], CloseInternal, "Internal Error", throws)

\* ws.end(1008, "Not Found"); return;  inside the try block.
NotFound(x, throws) ==
  LET y == WsEnd(x, ClosePolicy, "Not Found", throws)
  IN IF y.exc THEN Catch(y, throws) ELSE y

\* A factory call that stores the context on the user data before the
\* factory has returned.
CallFactoryStoresContext(x, handler) ==
  [x EXCEPT !.log = Append(@, Call("factory", 0, "", "")), !.handler = handler,
            !.context = TRUE, !.pc = "awaitHandler"]

\* await handler(mockContext): the factory is called and the open callback
\* suspends until what it returned settles.
CallFactory(x, handler) ==
  [x EXCEPT !.log = Append(@, Call("factory", 0, "", "")), !.handler = handler,
            !.pc = "awaitHandler"]

\* The upgrade request the transport hands to the upgrade callback.
UpgradeRequest(t) == [path |-> t[1], query |-> t[2], host |-> Host, headers |-> UpgradeHeaders]

\* An upgrade callback that accepts the handshake for registered paths only.
WsUpgradeRegisteredOnly(s) ==
  /\ sess[s].pc = "none"
  /\ \E t \in WsTargets :
       LET q == UpgradeRequest(t)
       IN sess' = [sess EXCEPT ![s] =
                     IF wsHandlers[q.path] = Nil
                     THEN [@ EXCEPT !.pc = "ended", !.attempts = @ + 1, !.req = Some(q)]
                     ELSE [@ EXCEPT !.pc = "upgraded",
                                    !.attempts = @ + 1, !.req = Some(q),
                                    !.url = UrlString(Protocol, q.host, q.path, q.query),
                                    !.headers = q.headers,
                                    !.upgrades = @ + 1]]
  /\ UNCHANGED <<regVars, notWs>>

\* upgrade: (res, req, context) => ...: the url and header pairs are read
\* and res.upgrade is called with them.
WsUpgrade(s) ==
  /\ sess[s].pc = "none"
  /\ \E t \in WsTargets :
       LET q == UpgradeRequest(t)
       IN sess' = [sess EXCEPT ![s] =
                     [@ EXCEPT !.pc = "upgraded",
                               !.attempts = @ + 1, !.req = Some(q),
                               !.url = UrlString(Protocol, q.host, q.path, q.query),
                               !.headers = q.headers,
                               !.upgrades = @ + 1]]
  /\ UNCHANGED <<regVars, notWs>>

\* open making the synthetic pass whatever the first lookup found.
WsOpenAlwaysPass(s) ==
  /\ sess[s].pc = "upgraded"
  /\ LET x == sess[s]
         path == Pathname(x.url)
     IN /\ sess' = [sess EXCEPT ![s] =
                      [x EXCEPT !.lookup1 = IF wsHandlers[path] # Nil THEN "found" ELSE "absent",
                                !.appCalls = @ + 1, !.pc = "awaitFetch"]]
        /\ wsHandlers' = AppPass(wsHandlers, path)
        /\ regLast' = IF AppRoute(path).kind = "ws"
                      THEN [regLast EXCEPT ![path] = Some(AppRoute(path).handler)]
                      ELSE regLast
  /\ UNCHANGED notWs

\* open, up to its first await: the first lookup, then either the factory
\* call or the synthetic pass through the application.
WsOpen(s) ==
  /\ sess[s].pc = "upgraded"
  /\ LET x == sess[s]
         path == Pathname(x.url)
     IN IF wsHandlers[path] # Nil
        THEN /\ sess' = [sess EXCEPT ![s] =
                           CallFactory([x EXCEPT !.lookup1 = "found"], wsHandlers[path])]
             /\ UNCHANGED regVars
        ELSE /\ sess' = [sess EXCEPT ![s] =
                           [x EXCEPT !.lookup1 = "absent", !.appCalls = @ + 1,
                                     !.pc = "awaitFetch"]]
             /\ wsHandlers' = AppPass(wsHandlers, path)
             /\ regLast' = IF AppRoute(path).kind = "ws"
                           THEN [regLast EXCEPT ![path] = Some(AppRoute(path).handler)]
                           ELSE regLast
  /\ UNCHANGED notWs

\* The rest of the try block after `await app.fetch(request)` returned a
\* response with this status.
AfterFetchNoSecondCheck(x, status, reg, throws) ==
  IF status # StatusSwitching
  THEN NotFound([x EXCEPT !.status = status], throws)
  ELSE IF reg[Pathname(x.url)] = Nil
  THEN Catch([x EXCEPT !.status = status, !.lookup2 = "absent"], throws)
  ELSE CallFactory([x EXCEPT !.status = status, !.lookup2 = "found"], reg[Pathname(x.url)])

AfterFetch(x, status, reg, throws) ==
  IF status # StatusSwitching
  THEN NotFound([x EXCEPT !.status = status], throws)
  ELSE IF reg[Pathname(x.url)] = Nil
  THEN NotFound([x EXCEPT !.status = status, !.lookup2 = "absent"], throws)
  ELSE CallFactory([x EXCEPT !.status = status, !.lookup2 = "found"], reg[Pathname(x.url)])

\* The synthetic pass resolves.
WsFetchResolve(s) ==
  /\ sess[s].pc = "awaitFetch"
  /\ AppRoute(Pathname(sess[s].url)).kind # "reject"
  /\ \E throws \in BOOLEAN :
       LET y == AfterFetch(sess[s], AppRoute(Pathname(sess[s].url)).status, wsHandlers, throws)
       IN sess' = [sess EXCEPT ![s] = IF y.pc = "awaitHandler" THEN y ELSE OpenReturns(y)]
  /\ UNCHANGED <<regVars, notWs>>

\* The synthetic pass rejects.
WsFetchReject(s) ==
  /\ sess[s].pc = "awaitFetch"
  /\ AppRoute(Pathname(sess[s].url)).kind = "reject"
  /\ \E throws \in BOOLEAN :
       sess' = [sess EXCEPT ![s] = OpenReturns(Catch(sess[s], throws))]
  /\ UNCHANGED <<regVars, notWs>>

\* The factory's result settles with a callback set: it is stored on the
\* user data and onOpen is called.
AfterHandler(x, events, openThrows, closeThrows) ==
  LET y == [x EXCEPT !.events = Some(events), !.context = TRUE]
  IN IF events.onOpen
     THEN LET z == [y EXCEPT !.log = Append(@, Call("onOpen", 0, "", "")),
                             !.threw = IF openThrows THEN @ \cup {"onOpen"} ELSE @]
          IN IF openThrows THEN Catch(z, closeThrows) ELSE z
     ELSE y

WsHandlerResolve(s) ==
  /\ sess[s].pc = "awaitHandler"
  /\ \E openThrows \in BOOLEAN, closeThrows \in BOOLEAN :
       LET x == sess[s]
       IN sess' = [sess EXCEPT ![s] =
                     OpenReturns(AfterHandler(x, EventsOf(x.handler[1]), openThrows, closeThrows))]
  /\ UNCHANGED <<regVars, notWs>>

\* The factory throws, or the promise it returned rejects.
WsHandlerReject(s) ==
  /\ sess[s].pc = "awaitHandler"
  /\ \E throws \in BOOLEAN :
       sess' = [sess EXCEPT ![s] =
                  OpenReturns(Catch([sess[s] EXCEPT !.threw = @ \cup {"factory"}], throws))]
  /\ UNCHANGED <<regVars, notWs>>

\* A message callback that decodes every message as text.
MessageCbAlwaysText(x, m, throws) ==
  IF x.events # Nil /\ x.events[1].onMessage
  THEN [x EXCEPT !.log = Append(@, Call("onMessage", 0, Decode(m.data).kind, Decode(m.data).data)),
                 !.threw = IF throws THEN @ \cup {"onMessage"} ELSE @,
                 !.exc = throws]
  ELSE x

\* message: (ws, message, isBinary) => ...
MessageCb(x, m, throws) ==
  IF x.events # Nil /\ x.events[1].onMessage
  THEN [x EXCEPT !.log = Append(@,
                   IF m.isBinary THEN Call("onMessage", 0, "bytes", m.data)
                   ELSE Call("onMessage", 0, Decode(m.data).kind, Decode(m.data).data)),
                 !.threw = IF throws THEN @ \cup {"onMessage"} ELSE @,
                 !.exc = throws]
  ELSE x

\* What a transport callback raised and did not catch reaches the transport.
CallbackReturns(x, name) ==
  [x EXCEPT !.escaped = IF x.exc THEN @ \cup {name} ELSE @, !.exc = FALSE]

\* The transport delivers the next message of an accepted, unclosed session.
WsMessage(s) ==
  /\ sess[s].pc \notin {"none", "upgraded"}
  /\ ~sess[s].closed
  /\ sess[s].recv < MaxMsgs
  /\ \E throws \in BOOLEAN :
       LET x == sess[s]
           m == MsgAt(x.recv + 1)
           opened == \E i \in 1..Len(x.log) : x.log[i].ev = "onOpen"
           x1 == [x EXCEPT !.recv = @ + 1,
                           !.recvAfterOpen = IF opened THEN Append(@, m) ELSE @]
       IN sess' = [sess EXCEPT ![s] = CallbackReturns(MessageCb(x1, m, throws), "message")]
  /\ UNCHANGED <<regVars, notWs>>

\* The close notifications a peer causes, <<code, message>>: a normal close
\* with a reason, or going away (1001) with none.
PeerCloses == {<<CloseNormal, "bye">>, <<1001, "">>}

\* The peer closes (or the connection drops): the close notification.
WsPeerClose(s) ==
  /\ sess[s].pc \notin {"none", "upgraded"}
  /\ ~sess[s].closed
  /\ \E n \in PeerCloses, throws \in BOOLEAN :
       LET x == [sess[s] EXCEPT !.closed = TRUE, !.closedBy = "peer",
                                !.closeCode = n[1], !.closeReason = n[2],
                                !.eventsAtClose = sess[s].events]
       IN sess' = [sess EXCEPT ![s] = CallbackReturns(CloseCb(x, n[1], n[2], throws), "close")]
  /\ UNCHANGED <<regVars, notWs>>

\* A plain request for a path reaches the application through the HTTP
\* handler: a route declared with upgradeWebSocket registers its handler.
WsPlainRequest(p) ==
  /\ wsHandlers[p] = Nil
  /\ AppRoute(p).kind = "ws"
  /\ wsHandlers' = AppPass(wsHandlers, p)
  /\ regLast' = [regLast EXCEPT ![p] = Some(AppRoute(p).handler)]
  /\ UNCHANGED <<sess, notWs>>

\* A request reaches any of the upgradeWebSocket declarations for a path,
\* whatever the registry holds for it: the middleware registers its factory.
WsDeclared(p) ==
  /\ \E h \in RouteFactories(p) :
       /\ wsHandlers[p] # Some(h)
       /\ wsHandlers' = Register(wsHandlers, p, h)
       /\ regLast' = [regLast EXCEPT ![p] = Some(h)]
  /\ UNCHANGED <<sess, notWs>>

\* The paths the application of another server instance in the same process
\* declares with upgradeWebSocket: one this server's application answers
\* with a 404, one it answers 101 without a declaration, and one both declare.
OtherAppPaths == {"/plain", "/bare", "/ws"}

\* A request reaches an upgradeWebSocket middleware of the other instance's
\* application: it writes its factory into the module's one Map.
WsOtherInstance(p) ==
  /\ wsHandlers[p] # Some("foreign")
  /\ wsHandlers' = Register(wsHandlers, p, "foreign")
  /\ regLast' = [regLast EXCEPT ![p] = Some("foreign")]
  /\ UNCHANGED <<sess, notWs>>

WsInit ==
  /\ wsHandlers = [p \in WsPaths |-> Nil]
  /\ regLast = [p \in WsPaths |-> Nil]
  /\ sess = [s \in Sessions |-> NoSession]

----------------------------------------------------------------------------
(* The lazy request (requestPrototype, createLazyRequest).                 *)

\* How many reads of one lazy request are followed.
MaxReads == 3

LazyMethods == {"GET", "POST"}

LazyUrls == {UrlString(Protocol, Host, "/a", ""), UrlString(Protocol, Host, "/a", "b=1")}

LazyHeaderData == {<<>>, <<<<"A", <<"1">>>>, <<"B", <<"2">>>>, <<"A", <<"3">>>>>>}

\* The accessors that go through the full request: properties and methods.
FullProps == {"body", "bodyUsed", "signal"}

FullMethods == {"clone", "text", "json"}

NoLazy ==
  [made |-> FALSE, method |-> "", url |-> <<>>, headersData |-> <<>>, body |-> Nil,
   headers |-> Nil, requestCache |-> Nil, stream |-> "none", threw |-> FALSE,
   args |-> Nil, builds |-> 0, headerBuilds |-> 0, handoffs |-> 0,
   got |-> <<>>, lastRead |-> Nil, reads |-> 0, headerReads |-> 0]

\* createLazyRequest(method, url, headersData, body)
CreateLazyRequest(method, url, headersData, body) ==
  [NoLazy EXCEPT !.made = TRUE, !.method = method, !.url = url,
                 !.headersData = headersData, !.body = body,
                 !.stream = IF body # Nil THEN "readable" ELSE "none",
                 !.args = Some([method |-> method, url |-> url,
                                headersData |-> headersData, body |-> body])]

\* new LightweightRequest(url, {method, headers, body}): the full request,
\* the n-th one built for this lazy request.
NewRequest(q, n) ==
  [id |-> n, method |-> q.method, url |-> q.url,
   headers |-> NewHeaders(q.headersData), body |-> q.body, bodyUsed |-> FALSE]

\* [getRequestCache]() building a request on every call.
GetRequestCacheNoMemo(q) ==
  IF q.stream = "disturbed" THEN [q EXCEPT !.threw = TRUE]
  ELSE [q EXCEPT !.requestCache = Some(NewRequest(q, q.builds + 1)),
                 !.builds = @ + 1,
                 !.handoffs = IF q.body # Nil THEN @ + 1 ELSE @,
                 !.threw = FALSE]

\* [getRequestCache]() passing no body when the stream was already read.
GetRequestCacheDropBody(q) ==
  IF q.requestCache # Nil THEN [q EXCEPT !.threw = FALSE]
  ELSE [q EXCEPT !.requestCache =
                   Some(NewRequest(IF q.stream = "disturbed" THEN [q EXCEPT !.body = Nil] ELSE q,
                                   q.builds + 1)),
                 !.builds = @ + 1,
                 !.handoffs = IF q.body # Nil THEN @ + 1 ELSE @,
                 !.threw = FALSE]

\* [getRequestCache](): build the full request unless one is memoized. The
\* platform's Request constructor throws a TypeError for a body stream that
\* is disturbed, and then nothing is memoized.
GetRequestCache(q) ==
  IF q.requestCache # Nil THEN [q EXCEPT !.threw = FALSE]
  ELSE IF q.stream = "disturbed" THEN [q EXCEPT !.threw = TRUE]
  ELSE [q EXCEPT !.requestCache = Some(NewRequest(q, q.builds + 1)),
                 !.builds = @ + 1,
                 !.handoffs = IF q.body # Nil THEN @ + 1 ELSE @,
                 !.threw = FALSE]

\* get headers() building a collection on every call.
HeadersGetterNoMemo(q) ==
  [q EXCEPT !.headers = Some([id |-> q.headerBuilds + 1, list |-> NewHeaders(q.headersData)]),
            !.headerBuilds = @ + 1]

\* get headers(): new Headers(headersData) on the first access, memoized.
HeadersGetter(q) ==
  IF q.headers # Nil THEN q
  ELSE [q EXCEPT !.headers = Some([id |-> q.headerBuilds + 1,
                                   list |-> NewHeaders(q.headersData)]),
                 !.headerBuilds = @ + 1]

\* The handler (or the open callback) creates the lazy request: a body
\* stream for a method that can carry one, null otherwise.
LazyCreate ==
  /\ ~lazy.made
  /\ \E m \in LazyMethods, u \in LazyUrls, h \in LazyHeaderData :
       lazy' = CreateLazyRequest(m, u, h, IF m = "GET" THEN Nil ELSE Some("stream"))
  /\ UNCHANGED notLazy

\* get method(), get url()
LazyRead(prop) ==
  /\ lazy.made /\ lazy.reads < MaxReads
  /\ lazy' = [lazy EXCEPT !.reads = @ + 1,
                          !.lastRead = Some([prop |-> prop,
                                             value |-> IF prop = "method" THEN <<lazy.method>>
                                                       ELSE lazy.url])]
  /\ UNCHANGED notLazy

\* get headers()
LazyHeaders ==
  /\ lazy.made /\ lazy.reads < MaxReads
  /\ LET q == HeadersGetter(lazy)
     IN lazy' = [q EXCEPT !.reads = @ + 1,
                          !.headerReads = @ + 1,
                          !.lastRead = Some([prop |-> "headers", value |-> q.headers])]
  /\ UNCHANGED notLazy

\* What the body of a request holds, as the body-reading methods give it.
Payload == "payload"

\* What the full request does for an accessor: the body-reading methods
\* consume a body once and fail on a consumed one, as clone does; data is
\* what a body-reading method yields ("" for a request without a body).
UseRequest(r, k) ==
  IF k \in {"text", "json"}
  THEN IF r.bodyUsed THEN [req |-> r, result |-> "TypeError", data |-> ""]
       ELSE [req |-> [r EXCEPT !.bodyUsed = (r.body # Nil)], result |-> "ok",
             data |-> IF r.body # Nil THEN Payload ELSE ""]
  ELSE IF k = "clone" /\ r.bodyUsed THEN [req |-> r, result |-> "TypeError", data |-> ""]
  ELSE [req |-> r, result |-> "ok", data |-> ""]

\* Any accessor proxied to the full request: this[getRequestCache]()[k].
\* What the materialization throws reaches the caller of the accessor.
LazyFull(k) ==
  /\ lazy.made /\ lazy.reads < MaxReads
  /\ \E q \in {GetRequestCache(lazy)} :
       IF q.threw
       THEN lazy' = [q EXCEPT !.reads = @ + 1,
                              !.got = Append(@, [via |-> k, id |-> 0, result |-> "TypeError",
                                                 data |-> "", drained |-> TRUE])]
       ELSE \E u \in {UseRequest(q.requestCache[1], k)} :
              lazy' = [q EXCEPT !.reads = @ + 1,
                                !.requestCache = Some(u.req),
                                !.stream = IF u.req.bodyUsed THEN "disturbed" ELSE @,
                                !.got = Append(@, [via |-> k, id |-> q.requestCache[1].id,
                                                   result |-> u.result, data |-> u.data,
                                                   drained |-> q.requestCache[1].bodyUsed])]
  /\ UNCHANGED notLazy

\* The body stream is read to its end by code that holds the request object
\* (the stream is the request's own property under bodyKey), not through
\* the full request.
LazyTakeBody ==
  /\ lazy.made /\ lazy.stream = "readable"
  /\ lazy' = [lazy EXCEPT !.stream = "disturbed",
                          !.requestCache = IF @ # Nil THEN Some([@[1] EXCEPT !.bodyUsed = TRUE])
                                           ELSE @]
  /\ UNCHANGED notLazy

LazyInit == lazy = NoLazy

----------------------------------------------------------------------------
(* One response through both writers.                                      *)

ArrayBufferBody(s) == [kind |-> "arraybuffer", data |-> s, type |-> <<>>]

RespBodies ==
  {NullBody, StringBody("hi"), StringBody(""), BytesBody("hi"), StreamBody("hi"),
   BlobBody("hi", <<"image/", "png">>), ArrayBufferBody("hi")}

RespHeaderInits ==
  {NoHeaders,
   [kind |-> "record", list |-> <<<<"Content-Type", TextPlain>>>>],
   [kind |-> "record", list |-> <<<<"X-B", <<"2">>>>, <<"X-A", <<"1">>>>>>],
   [kind |-> "array", list |-> <<<<"A", <<"1">>>>, <<"B", <<"2">>>>, <<"A", <<"3">>>>>>],
   [kind |-> "Headers", list |-> <<<<"content-type", AppJson>>>>],
   [kind |-> "record", list |-> <<<<"Content-Type", LdJsonCharset>>>>],
   [kind |-> "record", list |-> <<<<"Content-Type", RelatedJson>>>>],
   [kind |-> "record", list |-> <<<<"Content-Type", OctetStream>>>>]}

RespInits == {MakeInit(st, h) : st \in {0, 404}, h \in RespHeaderInits}

\* How many full-object accessors of one response are read.
MaxFullReads == 2

NoRsp ==
  [made |-> FALSE, obj |-> Nil, fast |-> Nil, slow |-> Nil, ctx |-> Nil, fullReads |-> 0,
   fastAfter |-> 0, lastStatus |-> Nil, setWith |-> "none"]

\* new Response(body, init)
RespConstruct ==
  /\ ~rsp.made
  /\ \E b \in RespBodies, i \in RespInits :
       rsp' = [rsp EXCEPT !.made = TRUE, !.obj = Some(LightweightResponse(b, i))]
  /\ UNCHANGED notRsp

\* response.headers
RespHeaders ==
  /\ rsp.made /\ rsp.slow = Nil
  /\ rsp' = [rsp EXCEPT !.obj = Some(HeadersAccess(rsp.obj[1]))]
  /\ UNCHANGED notRsp

\* The header a middleware adds to a response it was handed.
AddedHeader == <<"X-A", <<"9">>>>

\* response.headers.set(...), once, before the response is written.
RespSetHeader ==
  /\ rsp.made /\ rsp.slow = Nil /\ rsp.fast = Nil /\ rsp.setWith = "none"
  /\ rsp' = [rsp EXCEPT !.obj = Some(SetHeader(rsp.obj[1], AddedHeader[1], AddedHeader[2])),
                        !.setWith = IF rsp.obj[1].cacheKey # Nil THEN "triple" ELSE "full"]
  /\ UNCHANGED notRsp

\* Any accessor proxied to the full response: this[getResponseCache]()[k].
RespFull ==
  /\ rsp.made /\ rsp.slow = Nil /\ rsp.fullReads < MaxFullReads
  /\ rsp' = [rsp EXCEPT !.obj = Some(GetResponseCache(rsp.obj[1])), !.fullReads = @ + 1]
  /\ UNCHANGED notRsp

\* response.status, response.ok: from the triple when there is one, from
\* the full response otherwise.
RespStatus ==
  /\ rsp.made /\ rsp.slow = Nil /\ rsp.lastStatus = Nil
  /\ \E st \in {StatusOf(rsp.obj[1])} :
       rsp' = [rsp EXCEPT !.obj = IF rsp.obj[1].cacheKey # Nil THEN @
                                 ELSE Some(GetResponseCache(rsp.obj[1])),
                          !.lastStatus = Some([status |-> st, ok |-> st >= 200 /\ st < 300])]
  /\ UNCHANGED notRsp

\* The fast path on a live connection.
RespWriteFast ==
  /\ rsp.made /\ rsp.fast = Nil /\ rsp.slow = Nil
  /\ rsp.obj[1].cacheKey # Nil
  /\ WriteResponseViaCache(rsp.obj[1].cacheKey[1], FALSE).handled
  /\ rsp' = [rsp EXCEPT !.fast = Some(WriteResponseViaCache(rsp.obj[1].cacheKey[1], FALSE).batch),
                        !.fastAfter = rsp.fullReads]
  /\ UNCHANGED notRsp

\* The async path on a live connection, from its start to its cork.
RespWriteAsync ==
  /\ rsp.made /\ rsp.slow = Nil
  /\ \E a \in {AsyncBegin(rsp.obj[1], FALSE)} :
       rsp' = [rsp EXCEPT !.obj = Some(a.resp),
                          !.ctx = a.ctx,
                          !.slow = Some(AsyncFinish(a.resp, a.ctx[1], FALSE))]
  /\ UNCHANGED notRsp

RespInit == rsp = NoRsp

----------------------------------------------------------------------------
(* The request body bridge (getBody) and the abort handlers of one request. *)

\* How many chunks the transport delivers for one request body at most.
MaxChunks == 3

\* The chunks the transport delivers: byte sequences, the empty one included.
ChunkData == {<<>>, <<"a">>, <<"b", "c">>}

\* req.getMethod(): the transport gives the method in lower case.
BodyMethods == {"get", "head", "options", "post"}

\* String.prototype.toUpperCase on a method name.
ToUpperCase(m) ==
  CASE m = "get" -> "GET"
    [] m = "head" -> "HEAD"
    [] m = "options" -> "OPTIONS"
    [] m = "post" -> "POST"
    [] OTHER -> m

\* Before the request: no bridge, no abort handler on res.
NoBridge ==
  [started |-> FALSE, raw |-> "", method |-> "", body |-> "none",
   made |-> FALSE, onData |-> FALSE,
   onAborted |-> "none", aborted |-> FALSE, notified |-> FALSE,
   buf |-> <<>>, delivered |-> <<>>, lastSeen |-> FALSE,
   queue |-> <<>>, wstate |-> "none",
   got |-> <<>>, readerDone |-> FALSE, readerErr |-> FALSE]

\* A chunk entry that shares the transport's buffer instead of copying it.
CopyChunkShared(chunk) == [ref |-> TRUE, data |-> <<>>]

\* copy = new Uint8Array(chunk.byteLength); copy.set(new Uint8Array(chunk))
CopyChunk(chunk) == [ref |-> FALSE, data |-> chunk]

\* The bytes an entry of the stream holds, given the transport's buffer now.
Bytes(e, buf) == IF e.ref THEN buf ELSE e.data

\* res.onAborted(handler): res keeps one abort handler, the last one set.
OnAborted(b, handler) == [b EXCEPT !.onAborted = handler]

\* getBody(res): a transform stream, its writer, the data handler and the
\* bridge's abort handler.
GetBody(b) ==
  OnAborted([b EXCEPT !.made = TRUE, !.onData = TRUE, !.wstate = "writable"], "bridge")

\* The request handler up to the creation of the lazy request: a body
\* bridge for a method that can carry a body, then the handler's own abort
\* handler.
\* The body selection comparing the method as the transport gave it.
SelectBodyNoUpperCase(b, raw) ==
  IF raw \in {"GET", "HEAD", "OPTIONS"}
  THEN [b EXCEPT !.raw = raw, !.method = ToUpperCase(raw), !.body = "null"]
  ELSE [GetBody(b) EXCEPT !.raw = raw, !.method = ToUpperCase(raw), !.body = "stream"]

\* method = req.getMethod().toUpperCase(); body = null for GET, HEAD and
\* OPTIONS, getBody(res) otherwise.  body is what createLazyRequest is given.
SelectBody(b, raw) ==
  LET method == ToUpperCase(raw)
  IN IF method = "GET" \/ method = "HEAD" \/ method = "OPTIONS"
     THEN [b EXCEPT !.raw = raw, !.method = method, !.body = "null"]
     ELSE [GetBody(b) EXCEPT !.raw = raw, !.method = method, !.body = "stream"]

BodyRequest ==
  /\ ~bs.started
  /\ \E m \in BodyMethods :
       bs' = OnAborted(SelectBody([bs EXCEPT !.started = TRUE], m), "handler")
  /\ UNCHANGED notBody

\* res.onData callback: the transport hands over its buffer with the next
\* chunk; the bridge writes a copy and closes the writer on the last one.
OnData ==
  /\ bs.onData /\ ~bs.lastSeen /\ ~bs.notified
  /\ Len(bs.delivered) < MaxChunks
  /\ \E chunk \in ChunkData, isLast \in BOOLEAN :
       bs' = [bs EXCEPT !.buf = chunk,
                        !.delivered = Append(@, chunk),
                        !.lastSeen = isLast,
                        !.queue = IF bs.wstate = "writable"
                                  THEN Append(@, CopyChunk(chunk)) ELSE @,
                        !.wstate = IF isLast /\ bs.wstate = "writable"
                                   THEN "closing" ELSE @]
  /\ UNCHANGED notBody

\* The transport reuses its buffer once the data callback has returned:
\* the bytes the callback was handed are overwritten.
BufferReuse ==
  /\ bs.made /\ bs.delivered # <<>>
  /\ \E d \in ChunkData \ {bs.buf} : bs' = [bs EXCEPT !.buf = d]
  /\ UNCHANGED notBody

\* The consumer's read() completes: the next chunk in the stream, or the
\* end once the writer closed and the stream is drained, or the error of an
\* errored stream. It stays pending otherwise.
BodyRead ==
  /\ bs.made /\ ~bs.readerDone /\ ~bs.readerErr
  /\ \/ /\ bs.wstate = "errored"
        /\ bs' = [bs EXCEPT !.readerErr = TRUE]
     \/ /\ bs.wstate # "errored" /\ bs.queue # <<>>
        /\ bs' = [bs EXCEPT !.got = Append(@, Bytes(Head(bs.queue), bs.buf)),
                            !.queue = Tail(@)]
     \/ /\ bs.wstate = "closing" /\ bs.queue = <<>>
        /\ bs' = [bs EXCEPT !.readerDone = TRUE, !.wstate = "closed"]
  /\ UNCHANGED notBody

\* The transport's abort notification runs the abort handler res holds:
\* the bridge's aborts the writer, the request handler's sets its flag.
AbortNotify ==
  /\ bs.started /\ ~bs.notified
  /\ bs' = [bs EXCEPT !.notified = TRUE,
                      !.aborted = IF bs.onAborted = "handler" THEN TRUE ELSE @,
                      !.wstate = IF bs.onAborted = "bridge" /\ @ \in {"writable", "closing"}
                                 THEN "errored" ELSE @,
                      !.queue = IF bs.onAborted = "bridge" THEN <<>> ELSE @]
  /\ UNCHANGED notBody

BodyInit == bs = NoBridge

----------------------------------------------------------------------------
(* The URL both handlers rebuild from the transport's request.              *)

\* options.ca: absent, or the TLS material of the server.
CaOptions == {Nil, Some("tls")}

UrlHosts == {"localhost", "example.com:8080", ""}

UrlPaths == {"/", "/a", "/a/b"}

\* req.getQuery(): "" when the request has no query.
UrlQueries == {"", "b=1", "b=1&c=2"}

\* isSSLEnabled = options.ca !== undefined; protocol = isSSLEnabled ? "https" : "http"
ProtocolOf(ca) == IF ca # Nil THEN "https" ELSE "http"

\* An `origin` entry in the options object, as <<scheme, "://", authority>>,
\* or none: createUwsServer reads port, host, ca and overrideGlobalObjects
\* only, so the entry reaches nothing.
OriginOptions == {Nil, Some(<<"https", "://", "api.example.com">>)}

NoUrl ==
  [handler |-> "none", ca |-> Nil, origin |-> Nil, host |-> "", path |-> "", query |-> "",
   url |-> <<>>]

\* The URL string a handler of a server configured with `ca` builds, from
\* the protocol and the request's host header, path and query.
BuildUrl(handler, ca, origin, host, path, query) ==
  [handler |-> handler, ca |-> ca, origin |-> origin, host |-> host, path |-> path,
   query |-> query,
   url |-> UrlString(ProtocolOf(ca), host, path, query)]

\* uwsApp.any handler: urlString of a plain request.
UrlPlain ==
  /\ \E ca \in CaOptions, o \in OriginOptions, h \in UrlHosts, pa \in UrlPaths,
        q \in UrlQueries :
       urlv' = BuildUrl("any", ca, o, h, pa, q)
  /\ UNCHANGED notUrl

\* upgrade callback: urlString of an upgrade request.
UrlUpgrade ==
  /\ \E ca \in CaOptions, o \in OriginOptions, h \in UrlHosts, pa \in UrlPaths,
        q \in UrlQueries :
       urlv' = BuildUrl("upgrade", ca, o, h, pa, q)
  /\ UNCHANGED notUrl

UrlInit == urlv = NoUrl

----------------------------------------------------------------------------
(* Specifications *)

Init == HttpInit /\ WsInit /\ LazyInit /\ RespInit /\ BodyInit /\ UrlInit

Next ==
  \E c \in Conns :
    \/ Request(c)
    \/ FetchResolve(c)
    \/ FetchReject(c)
    \/ BodyResolve(c)
    \/ BodyReject(c)
    \/ Abort(c)

Spec == Init /\ [][Next]_vars

\* The event loop runs the continuation of every settled promise: the
\* callback given to honoResponse.then, and the rest of writeResponseAsync
\* after its await.  A promise that is pending settles one way or the other.
Fairness ==
  \A c \in Conns :
    /\ WF_vars(FetchResolve(c) \/ FetchReject(c))
    /\ WF_vars(BodyResolve(c) \/ BodyReject(c))

FairSpec == Init /\ [][Next]_vars /\ Fairness

WsNext ==
  \/ \E s \in Sessions :
       \/ WsUpgrade(s)
       \/ WsOpen(s)
       \/ WsFetchResolve(s)
       \/ WsFetchReject(s)
       \/ WsHandlerResolve(s)
       \/ WsHandlerReject(s)
       \/ WsMessage(s)
       \/ WsPeerClose(s)
  \/ \E p \in WsPaths : WsPlainRequest(p)

WsSpec == Init /\ [][WsNext]_vars

\* The registry under every step that reads or writes it, with sessions
\* that open and close but exchange no messages.
RegNext ==
  \/ \E s \in Sessions :
       \/ WsUpgrade(s)
       \/ WsOpen(s)
       \/ WsFetchResolve(s)
       \/ WsFetchReject(s)
       \/ WsHandlerResolve(s)
       \/ WsHandlerReject(s)
       \/ WsPeerClose(s)
  \/ \E p \in WsPaths : WsDeclared(p)

RegSpec == Init /\ [][RegNext]_vars

\* This server's sessions with a second server instance in the process,
\* whose application handles requests of its own.
MultiNext ==
  \/ \E s \in Sessions :
       \/ WsUpgrade(s)
       \/ WsOpen(s)
       \/ WsFetchResolve(s)
       \/ WsFetchReject(s)
       \/ WsHandlerResolve(s)
       \/ WsHandlerReject(s)
       \/ WsMessage(s)
       \/ WsPeerClose(s)
  \/ \E p \in WsPaths : WsPlainRequest(p)
  \/ \E p \in OtherAppPaths : WsOtherInstance(p)

MultiSpec == Init /\ [][MultiNext]_vars

LazyNext ==
  \/ LazyCreate
  \/ \E prop \in {"method", "url"} : LazyRead(prop)
  \/ LazyHeaders
  \/ \E k \in FullProps \cup FullMethods : LazyFull(k)

LazySpec == Init /\ [][LazyNext]_vars

\* The lazy request with its body stream also read apart from the request.
DrainNext ==
  \/ LazyCreate
  \/ \E prop \in {"method", "url"} : LazyRead(prop)
  \/ LazyHeaders
  \/ \E k \in FullProps \cup FullMethods : LazyFull(k)
  \/ LazyTakeBody

DrainSpec == Init /\ [][DrainNext]_vars

RespNext ==
  \/ RespConstruct
  \/ RespHeaders
  \/ RespSetHeader
  \/ RespFull
  \/ RespStatus
  \/ RespWriteFast
  \/ RespWriteAsync

RespSpec == Init /\ [][RespNext]_vars

BodyNext ==
  \/ BodyRequest
  \/ OnData
  \/ BufferReuse
  \/ BodyRead
  \/ AbortNotify

BodySpec == Init /\ [][BodyNext]_vars

UrlNext ==
  \/ UrlPlain
  \/ UrlUpgrade

UrlSpec == Init /\ [][UrlNext]_vars

----------------------------------------------------------------------------
(* Properties of the HTTP handler *)

\* C1: once a connection's aborted flag is true, no step writes anything
\* for it, on any path; a continuation that finds the flag set (the
\* promise's continuation, the async writer after its await) just ends,
\* without a write and without raising anything.
C1_NoWriteOnceAborted ==
  [][\A c \in Conns :
       aborted[c] =>
         /\ wr'[c] = wr[c]
         /\ (FetchResolve(c) \/ BodyResolve(c)) =>
              (pc'[c] = "done" /\ unhandled'[c] = unhandled[c])]_vars

\* A response arrived for a connection already aborted and was dropped.
C1_Witness ==
  \E c \in Conns :
    /\ aborted[c] /\ abortedAt[c] = "fetchPending"
    /\ pc[c] = "done" /\ resp[c] # Nil
    /\ wr[c] = <<>> /\ unhandled[c] = {}

\* C2: a request gets at most one write batch, whatever path serves it.
C2_AtMostOneBatch == \A c \in Conns : Len(wr[c]) <= 1

\* A cached stream response fell through the fast path and was written once
\* by the async path.
C2_Witness ==
  \E c \in Conns :
    /\ pc[c] = "done" /\ Len(wr[c]) = 1
    /\ resp[c] # Nil /\ resp[c][1].body.kind = "stream"
    /\ resp[c][1].init.status = 0

\* C3: an abort that arrives while the async writer awaits the body
\* (text or bytes) leaves the response unwritten.
C3_AbortDuringResolution ==
  \A c \in Conns : abortedAt[c] = "bodyPending" => wr[c] = <<>>

\* The abort arrived during the await, and the resolution then completed.
C3_Witness ==
  \E c \in Conns :
    /\ abortedAt[c] = "bodyPending" /\ pc[c] = "done"
    /\ unhandled[c] = {} /\ asyncCtx[c] # Nil

\* C7: no rejection inside an asynchronous continuation of the HTTP path
\* is left unhandled.
C7_NoUnhandledRejection == \A c \in Conns : unhandled[c] = {}

----------------------------------------------------------------------------
(* Properties of the upgrade bridge *)

\* The entries of a session's history that are calls into the application.
AppCallbacks == {"factory", "onOpen", "onMessage", "onClose"}

CallsOf(log, ev) == SelectSeq(log, LAMBDA e : e.ev = ev)

\* The payload onMessage is to receive for a delivered message.
ExpectedPayload(m) ==
  Call("onMessage", 0, IF m.isBinary THEN "bytes" ELSE "string", m.data)

C5_OpenMessagesClose ==
  \A s \in Sessions :
    LET x == sess[s]
        opens == CallsOf(x.log, "onOpen")
        msgs == CallsOf(x.log, "onMessage")
        closes == CallsOf(x.log, "onClose")
    IN (x.lookup1 = "found" \/ x.lookup2 = "found") =>
         /\ Len(opens) <= 1
         /\ (x.events # Nil /\ x.events[1].onOpen) => Len(opens) = 1
         /\ (x.events # Nil /\ x.events[1].onOpen /\ x.events[1].onMessage) =>
              /\ msgs = [i \in 1..Len(x.recvAfterOpen) |-> ExpectedPayload(x.recvAfterOpen[i])]
              /\ \A i, j \in 1..Len(x.log) :
                   (x.log[i].ev = "onOpen" /\ x.log[j].ev = "onMessage") => i < j
         /\ Len(closes) <= 1
         /\ (x.closed /\ x.eventsAtClose # Nil /\ x.eventsAtClose[1].onClose) =>
              closes = <<Call("onClose", x.closeCode, "string", x.closeReason)>>

\* onOpen, then every message in order, then a close with 1000 and "bye".
C5_Witness ==
  \E s \in Sessions :
    LET x == sess[s]
    IN /\ x.pc = "opened" /\ x.closedBy = "peer"
       /\ x.closeCode = CloseNormal /\ x.closeReason = "bye"
       /\ Len(x.recvAfterOpen) = MaxMsgs /\ MaxMsgs >= 2
       /\ Len(CallsOf(x.log, "onMessage")) = MaxMsgs
       /\ Len(CallsOf(x.log, "onClose")) = 1
       /\ x.escaped = {}

\* C6: whenever the factory or a session callback raised, the session was
\* closed with 1011, the error was logged, and nothing propagated out of a
\* transport callback.
C6_ExceptionsClose1011 ==
  \A s \in Sessions :
    LET x == sess[s]
    IN x.threw # {} =>
         /\ \E i \in 1..Len(x.log) : x.log[i].ev = "end" /\ x.log[i].code = CloseInternal
         /\ x.logged > 0
         /\ x.escaped = {}

----------------------------------------------------------------------------
(* Properties of the two response writers *)

\* What a batch puts on the wire: res.end() and res.end("") send the same
\* empty body, and a string and its bytes are the same body.
Wire(batch) ==
  [i \in 1..Len(batch) |->
     IF batch[i].op = "end" THEN [batch[i] EXCEPT !.a = "body"] ELSE batch[i]]

\* C8: for a response whose body is absent, a string or a byte sequence,
\* on a live connection, what the fast path writes (status, headers, body)
\* is what the async path writes for the same response.
C8_FastEqualsAsync ==
  (/\ rsp.fast # Nil /\ rsp.slow # Nil
   /\ rsp.obj[1].body.kind \in {"null", "string", "bytes"}) =>
     Wire(rsp.fast[1]) = Wire(rsp.slow[1])

----------------------------------------------------------------------------
(* Properties of the lazy request *)

\* C9: however often and through whichever full-object accessors a lazy
\* request is materialized, one full request is built, exactly one once
\* any accessor was used, every accessor works on that same object, and the
\* body stream is handed to a full request at most once.
C9_MaterializedOnce ==
  /\ lazy.builds <= 1
  /\ lazy.handoffs <= 1
  /\ \A i \in 1..Len(lazy.got) : lazy.got[i].id = 1
  /\ Len(lazy.got) > 0 =>
       (lazy.builds = 1 /\ lazy.requestCache # Nil /\ lazy.requestCache[1].id = 1)
  /\ lazy.requestCache = Nil => lazy.builds = 0

\* A request with a body stream was materialized through a property and
\* then through a method, and again after that.
C9_Witness ==
  /\ lazy.body # Nil
  /\ Len(lazy.got) = 3
  /\ lazy.got[1].via \in FullProps
  /\ lazy.got[2].via \in FullMethods
  /\ lazy.got[3].via # lazy.got[2].via
  /\ lazy.handoffs = 1

\* C10: a read of method, url or headers leaves the memoized full request
\* as it was (none is built) and returns what the constructor captured;
\* the header collection is built on the first headers access and is the
\* one every later access returns; the captured method, url, header pairs
\* and body handle never change after construction.
C10_LightReadsFrame ==
  [][lazy.made =>
     LET Reads(prop) == lazy'.lastRead # Nil /\ lazy'.lastRead[1].prop = prop
         LazyReadStep(prop) == Reads(prop) /\ LazyRead(prop)
         LazyHeadersStep == Reads("headers") /\ LazyHeaders
     IN
       /\ lazy'.method = lazy.args[1].method /\ lazy'.url = lazy.args[1].url
       /\ lazy'.headersData = lazy.args[1].headersData
       /\ lazy'.body = lazy.args[1].body
       /\ lazy'.args = lazy.args
       /\ lazy'.headerBuilds <= 1
       /\ lazy.headers # Nil => lazy'.headers = lazy.headers
       /\ (LazyHeadersStep \/ \E prop \in {"method", "url"} : LazyReadStep(prop)) =>
            /\ lazy'.requestCache = lazy.requestCache
            /\ lazy'.builds = lazy.builds /\ lazy'.handoffs = lazy.handoffs
       /\ LazyReadStep("method") => lazy'.lastRead[1].value = <<lazy.args[1].method>>
       /\ LazyReadStep("url") => lazy'.lastRead[1].value = lazy.args[1].url
       /\ LazyHeadersStep =>
            /\ lazy'.headers # Nil /\ lazy'.lastRead[1].value = lazy'.headers
            /\ lazy'.headers[1].id = 1
            /\ lazy'.headers[1].list = NewHeaders(lazy.args[1].headersData)
            /\ lazy'.headerBuilds = 1]_vars

\* Headers with a repeated name were read twice and the method once, with
\* one collection built and no full request.
C10_Witness ==
  /\ lazy.made /\ lazy.headersData # <<>>
  /\ lazy.headerReads = 2 /\ lazy.reads = 3
  /\ lazy.lastRead # Nil /\ lazy.lastRead[1].prop = "method"
  /\ lazy.headerBuilds = 1 /\ lazy.headers # Nil
  /\ lazy.builds = 0 /\ lazy.requestCache = Nil

----------------------------------------------------------------------------
(* Properties of header handling *)

\* The header pairs a write batch carries, in the order written.
HeaderPairsOf(batch) ==
  LET hs == SelectSeq(batch, LAMBDA w : w.op = "writeHeader")
  IN [i \in 1..Len(hs) |-> <<hs[i].a, hs[i].b>>]

\* C11: header pairs pass through request materialization and through
\* response writing unchanged: the materialized request holds the pairs the
\* lazy request captured, and a response built from a sequence of pairs is
\* written with those pairs, same order, repeated names kept apart.
C11_HeaderPairsRoundTrip ==
  /\ lazy.requestCache # Nil => lazy.requestCache[1].headers = lazy.headersData
  /\ (/\ rsp.fast # Nil
      /\ rsp.obj[1].init.headers.kind = "array") =>
        HeaderPairsOf(rsp.fast[1]) = rsp.obj[1].init.headers.list

----------------------------------------------------------------------------
(* Properties of the body bridge *)

RECURSIVE Concat(_)
\* The bytes of a sequence of chunks, one after the other.
Concat(chunks) ==
  IF chunks = <<>> THEN <<>> ELSE Head(chunks) \o Concat(Tail(chunks))

\* The chunks still in the stream, as the consumer would read them now.
Queued == [i \in 1..Len(bs.queue) |-> Bytes(bs.queue[i], bs.buf)]

\* C12: what the consumer has read followed by what the stream still holds
\* is the sequence of chunks the transport delivered, in that order, each
\* once; the stream is marked complete exactly when the chunk flagged last
\* was delivered, the consumer sees the end only after every chunk, and
\* the bytes read are the concatenation of the delivered chunks.
C12_ChunksInOrder ==
  ~bs.notified =>
    /\ bs.got \o Queued = bs.delivered
    /\ (bs.wstate \in {"closing", "closed"}) <=> bs.lastSeen
    /\ bs.readerDone => (bs.lastSeen /\ bs.got = bs.delivered
                         /\ Concat(bs.got) = Concat(bs.delivered))
    /\ ~bs.readerErr

\* Three chunks, the first two different, were delivered and read, and the
\* consumer saw the end.
C12_Witness ==
  /\ bs.readerDone /\ ~bs.notified
  /\ Len(bs.delivered) = 3
  /\ bs.delivered[1] # bs.delivered[2]
  /\ bs.got = bs.delivered

\* C13: after the abort notification of a connection that has a body
\* bridge, the body stream is errored (so a read completes with the error).
C13_AbortErrorsBody ==
  (bs.made /\ bs.notified /\ ~bs.readerDone) => bs.wstate = "errored"

----------------------------------------------------------------------------
(* Properties of the session-open step *)

\* The open callback of a session has returned.
OpenDone(x) == x.pc \in {"ended", "opened"}

\* The handler was found: at the first lookup, or at the second after a
\* pass that answered 101.
HandlerFound(x) ==
  \/ x.lookup1 = "found"
  \/ x.status = StatusSwitching /\ x.lookup2 = "found"

\* C14 as stated: the application is called at most once per session and
\* only after an absent first lookup; the factory is called only when the
\* handler was found; in every other case the bridge closes the session
\* with 1008.
C14_PassOnceElse1008 ==
  \A s \in Sessions :
    LET x == sess[s]
        ends == CallsOf(x.log, "end")
    IN /\ x.appCalls <= 1
       /\ x.appCalls = 1 => x.lookup1 = "absent"
       /\ Len(CallsOf(x.log, "factory")) > 0 => HandlerFound(x)
       /\ (OpenDone(x) /\ ~HandlerFound(x)) =>
            (Len(ends) >= 1 /\ ends[1].code = ClosePolicy)

\* C14, amended: as above, but the bridge closes with 1008 only when the
\* pass returned a response (one that is not 101, or 101 with the second
\* lookup absent); when the pass raised instead, the error is logged and
\* the bridge closes the session with 1011.
C14_PassOnceElse1008Or1011 ==
  \A s \in Sessions :
    LET x == sess[s]
        ends == CallsOf(x.log, "end")
    IN /\ x.appCalls <= 1
       /\ x.appCalls = 1 => x.lookup1 = "absent"
       /\ x.lookup1 = "found" => x.appCalls = 0
       /\ Len(CallsOf(x.log, "factory")) <= 1
       /\ Len(CallsOf(x.log, "factory")) > 0 => HandlerFound(x)
       /\ (OpenDone(x) /\ ~HandlerFound(x)) =>
            /\ Len(ends) >= 1
            /\ ends[1].code = IF x.status # 0 THEN ClosePolicy ELSE CloseInternal
            /\ x.status = 0 => x.logged > 0

\* A session whose first lookup was absent and whose single pass raised:
\* the bridge closed it with 1011.
C14_Witness ==
  \E s \in Sessions :
    LET x == sess[s]
    IN /\ OpenDone(x) /\ x.appCalls = 1 /\ x.lookup1 = "absent"
       /\ x.status = 0 /\ x.closedBy = "server" /\ x.closeCode = CloseInternal

----------------------------------------------------------------------------
(* Properties of the upgrade step *)

\* C15: every upgrade attempt, whatever its path and the registry, makes
\* exactly one call of the transport's upgrade primitive, with the URL and
\* the header pairs read from the request inside the upgrade callback; no
\* attempt is turned down at this step.
C15_UpgradeAlwaysAccepted ==
  \A s \in Sessions :
    LET x == sess[s]
    IN /\ x.upgrades = x.attempts
       /\ x.attempts <= 1
       /\ x.attempts = 1 =>
            /\ x.pc # "none"
            /\ x.url = UrlString(Protocol, x.req[1].host, x.req[1].path, x.req[1].query)
            /\ x.headers = x.req[1].headers

\* An upgrade to a path the application does not know was accepted by the
\* transport step and turned down only in open.
C15_Witness ==
  \E s \in Sessions :
    LET x == sess[s]
    IN /\ x.attempts = 1 /\ x.upgrades = 1
       /\ x.req[1].path = "/plain" /\ wsHandlers["/plain"] = Nil
       /\ x.status = 404 /\ x.closeCode = ClosePolicy

----------------------------------------------------------------------------
(* Properties of the URL reconstruction *)

\* C16: the URL a handler builds, for a plain request as for an upgrade
\* request, is scheme://host followed by the path, and by "?" and the query
\* exactly when the query is not empty; the scheme is https exactly when
\* TLS material was configured, http otherwise.
C16_UrlReconstruction ==
  urlv.handler # "none" =>
    /\ Len(urlv.url) = IF urlv.query = "" THEN 4 ELSE 6
    /\ SubSeq(urlv.url, 2, 4) = <<"://", urlv.host, urlv.path>>
    /\ urlv.query # "" => SubSeq(urlv.url, 5, 6) = <<"?", urlv.query>>
    /\ (urlv.url[1] = "https") <=> (urlv.ca # Nil)
    /\ (urlv.url[1] = "http") <=> (urlv.ca = Nil)

\* An upgrade request for /a with no query on a TLS server: https://host/a.
C16_Witness ==
  /\ urlv.handler = "upgrade" /\ urlv.ca # Nil
  /\ urlv.path = "/a" /\ urlv.query = ""
  /\ urlv.url = <<"https", "://", "localhost", "/a">>

----------------------------------------------------------------------------
(* Properties of the choice between the two writers *)

\* The response of connection c was written by the fast path: a batch was
\* written and the async writer never started.
FastWritten(c) == wr[c] # <<>> /\ asyncCtx[c] = Nil

\* The connection was already aborted when its response arrived.
AbortedAtDispatch(c) == abortedAt[c] = "fetchPending"

\* C17: a response is written by the fast path exactly when it holds its
\* fast-path triple as the application hands it over, the connection is
\* not aborted, and the body is absent, a string or a byte sequence. A
\* response with a stream or blob body is never written by the fast path:
\* on a live connection the async writer takes it, and whatever is written
\* for it is written by the async writer.
C17_FastPathIff ==
  \A c \in Conns :
    orig[c] # Nil =>
      LET r == orig[c][1]
      IN /\ FastWritten(c) <=>
              (/\ r.cacheKey # Nil
               /\ ~AbortedAtDispatch(c)
               /\ r.body.kind \in {"null", "string", "bytes"})
         /\ r.body.kind \in {"stream", "blob"} =>
              /\ ~FastWritten(c)
              /\ ~AbortedAtDispatch(c) => asyncCtx[c] # Nil
              /\ wr[c] # <<>> => asyncCtx[c] # Nil

\* A blob response that held its triple was written, by the async writer.
C17_Witness ==
  \E c \in Conns :
    /\ orig[c] # Nil /\ orig[c][1].body.kind = "blob" /\ orig[c][1].cacheKey # Nil
    /\ Len(wr[c]) = 1 /\ asyncCtx[c] # Nil /\ pc[c] = "done"

----------------------------------------------------------------------------
(* Properties of the fast-path triple *)

\* C18: once a full-object accessor of a response was read, the response
\* holds no fast-path triple, then and ever after; the fast path wrote it
\* only if it did so before any such read; at most one full response is
\* built for it; and a response whose body kind is cached keeps its triple
\* through reads of status, ok and headers.
C18_FullReadClearsTriple ==
  rsp.made =>
    /\ rsp.fullReads > 0 => rsp.obj[1].cacheKey = Nil
    /\ rsp.fast # Nil => rsp.fastAfter = 0
    /\ rsp.obj[1].builds <= 1
    /\ (rsp.obj[1].builds = 1) <=> (rsp.obj[1].responseCache # Nil)
    /\ rsp.fullReads > 0 => rsp.obj[1].builds = 1
    /\ (rsp.fullReads = 0 /\ rsp.slow = Nil /\ rsp.obj[1].body.kind \in CachedKinds) =>
         rsp.obj[1].cacheKey # Nil

\* A string response whose status was read, then two full-object accessors:
\* one full response built, no triple, nothing written by the fast path.
C18_Witness ==
  /\ rsp.made /\ rsp.obj[1].body.kind = "string"
  /\ rsp.lastStatus # Nil /\ rsp.fullReads = 2
  /\ rsp.obj[1].builds = 1 /\ rsp.obj[1].cacheKey = Nil
  /\ rsp.fast = Nil

\* A list of header pairs has a plain-text content type.
HasPlainText(pairs) ==
  \E i \in 1..Len(pairs) :
    /\ Lower(pairs[i][1]) = "content-type"
    /\ Len(pairs[i][2]) >= 2 /\ SubSeq(pairs[i][2], 1, 2) = TextPlain

\* C19: a response constructed with a body and no headers holds a
\* plain-text content type in the headers of its fast-path triple, and the
\* fast-path write of it carries a plain-text content-type header.
C19_DefaultContentType ==
  (/\ rsp.made
   /\ rsp.obj[1].body.kind # "null"
   /\ rsp.obj[1].init.headers = NoHeaders) =>
     /\ rsp.obj[1].cacheKey # Nil => HasPlainText(rsp.obj[1].cacheKey[1].headers.list)
     /\ rsp.fast # Nil => HasPlainText(HeaderPairsOf(rsp.fast[1]))

----------------------------------------------------------------------------
(* Properties of the handler registry *)

\* C20: the registry holds, for every path, the factory registered last
\* for it (a registration overwrites the entry), and nothing for a path
\* never registered; a lookup in open finds exactly that; and no step
\* removes an entry.
C20_RegistryLastWriteWins ==
  [][/\ wsHandlers' = regLast'
     /\ \A p \in WsPaths : wsHandlers[p] # Nil => wsHandlers'[p] # Nil
     /\ \A s \in Sessions :
          (sess[s].lookup1 = "none" /\ sess'[s].lookup1 # "none") =>
            LET p == Pathname(sess[s].url)
            IN IF regLast[p] = Nil
               THEN sess'[s].lookup1 = "absent"
               ELSE sess'[s].lookup1 = "found" /\ sess'[s].handler = regLast[p]
     /\ \A s \in Sessions :
          (sess[s].lookup2 = "none" /\ sess'[s].lookup2 # "none") =>
            LET p == Pathname(sess[s].url)
            IN IF regLast[p] = Nil
               THEN sess'[s].lookup2 = "absent"
               ELSE sess'[s].lookup2 = "found" /\ sess'[s].handler = regLast[p]]_vars

\* A session's pass registered the first factory declared for /ws and the
\* session got it from its second lookup; the second declaration was then
\* registered over it.
C20_Witness ==
  \E s \in Sessions :
    /\ sess[s].lookup1 = "absent" /\ sess[s].lookup2 = "found"
    /\ Pathname(sess[s].url) = "/ws"
    /\ sess[s].handler = Some("full")
    /\ wsHandlers["/ws"] = Some("quiet")
    /\ wsHandlers["/quiet"] = Nil

----------------------------------------------------------------------------
(* Properties of a consumed request body *)

\* C21: on a lazy request that has a body stream, an accessor that has to
\* materialize the full request from a stream already read to its end
\* fails with a TypeError and memoizes nothing, a body-reading method (or
\* clone) called after the body was drained fails with a TypeError, and a
\* body-reading method that succeeds yields the body's data, never empty
\* data in its place.
C21_ConsumedBodyFails ==
  lazy.body # Nil =>
    /\ \A i \in 1..Len(lazy.got) :
         LET e == lazy.got[i]
         IN /\ e.id = 0 => e.result = "TypeError"
            /\ (e.drained /\ e.via \in {"text", "json", "clone"}) => e.result = "TypeError"
            /\ (e.via \in {"text", "json"} /\ e.result = "ok") => e.data = Payload
    /\ lazy.threw => (lazy.requestCache = Nil /\ lazy.builds = 0)

\* The stream was read to its end before any accessor materialized the
\* request; text() and then a property read both failed.
C21_Witness ==
  /\ lazy.body # Nil /\ lazy.stream = "disturbed" /\ lazy.requestCache = Nil
  /\ Len(lazy.got) = 2
  /\ lazy.got[1].via = "text" /\ lazy.got[1].result = "TypeError"
  /\ lazy.got[2].via = "signal" /\ lazy.got[2].result = "TypeError"

----------------------------------------------------------------------------
(* Properties of what the HTTP handler writes *)

\* C22: no write batch of a plain request carries the status 101: a 101
\* response of the application is never written to a connection.
C22_No101Written ==
  \A c \in Conns :
    \A i \in 1..Len(wr[c]) : wr[c][i][1] # WriteStatus(StatusSwitching)

\* The batch carries the response r: its status first and its body last.
Carries(batch, r) ==
  /\ Len(batch) >= 2
  /\ batch[1] = WriteStatus(StatusOf(r))
  /\ batch[Len(batch)].op = "end"
  /\ batch[Len(batch)].b = <<r.body.data>>

\* C23: with several connections in flight, what is written on a
\* connection is the response the application gave for that connection's
\* request; a connection's flag is set by its own abort notification only;
\* and a connection whose transport never reported an abort gets its
\* response written whatever the flags of the other connections.
C23_ConnectionsIndependent ==
  \A c \in Conns :
    /\ aborted[c] <=> abortedAt[c] # "never"
    /\ wr[c] # <<>> => (orig[c] # Nil /\ Carries(wr[c][1], orig[c][1]))
    /\ (pc[c] = "done" /\ orig[c] # Nil /\ abortedAt[c] = "never" /\ unhandled[c] = {}) =>
         Len(wr[c]) = 1

\* One connection is aborted while another, whose response came through a
\* promise and the async writer, has its own (different) response written.
C23_Witness ==
  \E c, d \in Conns :
    /\ c # d
    /\ pc[c] = "done" /\ Len(wr[c]) = 1 /\ asyncCtx[c] # Nil /\ ~aborted[c]
    /\ aborted[d] /\ abortedAt[d] = "fetchPending" /\ orig[d] # Nil /\ wr[d] = <<>>
    /\ StatusOf(orig[c][1]) # StatusOf(orig[d][1])
    /\ wr[c][1][1] = WriteStatus(StatusOf(orig[c][1]))

\* The batch writes the header `name` (whatever its case) with `value`.
WritesHeader(batch, name, value) ==
  \E j \in 1..Len(batch) :
    /\ batch[j].op = "writeHeader"
    /\ Lower(batch[j].a) = name
    /\ batch[j].b = value

\* The headers of a response as its full form holds them: those of the
\* init and the content type the body implies.
FullHeadersOf(r) == GetResponseCache(r).responseCache[1].headers

\* C24: what is written for a request carries the status of the response
\* the application gave and every header of that response, with its value,
\* whichever path writes it and whether it was returned at once or through
\* a promise; and on a connection that is not aborted the response is
\* written.
C24_StatusAndHeadersWritten ==
  \A c \in Conns :
    /\ wr[c] # <<>> =>
         /\ wr[c][1][1] = WriteStatus(StatusOf(orig[c][1]))
         /\ \A h \in {FullHeadersOf(orig[c][1])} :
              \A i \in 1..Len(h) : WritesHeader(wr[c][1], h[i][1], h[i][2])
    /\ (pc[c] = "done" /\ orig[c] # Nil /\ ~aborted[c] /\ unhandled[c] = {}) =>
         wr[c] # <<>>

----------------------------------------------------------------------------
(* Properties of the request URL's origin *)

\* C25: the URL of the request handed to the application starts with the
\* configured origin, and with http://localhost when none is configured.
C25_UrlFromOrigin ==
  urlv.handler = "any" =>
    SubSeq(urlv.url, 1, 3) =
      IF urlv.origin # Nil THEN urlv.origin[1] ELSE <<"http", "://", "localhost">>

----------------------------------------------------------------------------
(* Properties of the open sequence after a close *)

\* C26: once a session is closed (its close notification was delivered),
\* no step of its open sequence calls ws.end on it, calls its handler
\* factory or calls onOpen.
C26_NoSideEffectAfterClose ==
  [][\A s \in Sessions :
       sess[s].closed =>
         \A ev \in {"end", "factory", "onOpen"} :
           CallsOf(sess'[s].log, ev) = CallsOf(sess[s].log, ev)]_vars

----------------------------------------------------------------------------
(* Properties of the chunk copy *)

\* C27: every entry of the stream is a copy of the chunk it was made from,
\* and no step, the transport overwriting its buffer included, changes the
\* bytes of a chunk already queued or already read: what was read and
\* queued before a step is a prefix of what is read and queued after it.
C27_QueuedBytesStable ==
  [][/\ \A i \in 1..Len(bs'.queue) : ~bs'.queue[i].ref
     /\ LET before == bs.got \o Queued
            after == bs'.got \o Queued'
        IN Len(after) >= Len(before) /\ SubSeq(after, 1, Len(before)) = before]_vars

\* A chunk sits in the stream with its bytes while the transport's buffer
\* already holds other bytes, no further chunk having been delivered.
C27_Witness ==
  /\ Len(bs.delivered) = 1 /\ Len(bs.queue) = 1
  /\ Queued = <<bs.delivered[1]>>
  /\ bs.buf # bs.delivered[1]
  /\ bs.delivered[1] # <<>>

----------------------------------------------------------------------------
(* Properties of the shape of a write batch *)

\* One cork's calls: a status write, then header writes only, then an end.
WellFormedBatch(batch) ==
  /\ Len(batch) >= 2
  /\ batch[1].op = "writeStatus"
  /\ batch[Len(batch)].op = "end"
  /\ \A i \in 2..(Len(batch) - 1) : batch[i].op = "writeHeader"

\* C28: every batch written is one status write, then header writes, then
\* one end, made in one step; a step writes at most one batch on a
\* connection and never alters one already written; and a response whose
\* body resolves to nothing is still ended, with an empty body.
C28_BatchShape ==
  [][\A c \in Conns :
       /\ \A i \in 1..Len(wr'[c]) : WellFormedBatch(wr'[c][i])
       /\ Len(wr'[c]) <= Len(wr[c]) + 1
       /\ SubSeq(wr'[c], 1, Len(wr[c])) = wr[c]
       /\ (/\ pc'[c] = "done" /\ orig'[c] # Nil /\ ~aborted'[c] /\ unhandled'[c] = {}
           /\ orig'[c][1].body.data = "") =>
            /\ Len(wr'[c]) = 1
            /\ wr'[c][1][Len(wr'[c][1])].b = <<"">>]_vars

\* An empty stream body went through the async writer as bytes: a status
\* write and an end with no body.
C28_Witness ==
  \E c \in Conns :
    /\ pc[c] = "done" /\ asyncCtx[c] # Nil /\ Len(wr[c]) = 1
    /\ orig[c][1].body = StreamBody("")
    /\ wr[c][1] = <<WriteStatus(DefaultStatus), End("none", "")>>

----------------------------------------------------------------------------
(* Properties of the async writer's choice between text and bytes *)

\* The async writer resolved the body as text: it ended with a string.
ResolvedAsText == rsp.slow[1][Len(rsp.slow[1])].a = "string"

\* C29 as stated: the async writer resolves the body as text exactly when
\* the content type it read starts with text/, contains application/json
\* or ends with +json, and as bytes otherwise, a missing content type
\* included.
C29_TextIffEndsWith ==
  rsp.slow # Nil =>
    LET ct == rsp.ctx[1].contentType
    IN ResolvedAsText <=>
         /\ ct # Nil
         /\ \/ ct[1][1] = "text/"
            \/ \E i \in 1..Len(ct[1]) : ct[1][i] = "application/json"
            \/ ct[1][Len(ct[1])] = "+json"

\* C29, amended: the async writer resolves the body as text exactly when
\* the content type it read starts with text/, starts with
\* application/json, or contains +json anywhere, and as bytes otherwise, a
\* missing content type included.
C29_TextIffStartsOrContains ==
  rsp.slow # Nil =>
    LET ct == rsp.ctx[1].contentType
    IN /\ ResolvedAsText <=>
            /\ ct # Nil
            /\ \/ ct[1][1] = "text/"
               \/ ct[1][1] = "application/json"
               \/ \E i \in 1..Len(ct[1]) : ct[1][i] = "+json"
       /\ ct = Nil => ~ResolvedAsText

\* A response typed application/ld+json;charset=utf-8 (+json inside, not
\* at the end) was resolved as text.
C29_Witness ==
  /\ rsp.slow # Nil /\ rsp.ctx[1].contentType = Some(LdJsonCharset)
  /\ ResolvedAsText
  /\ rsp.obj[1].body.kind = "stream"

----------------------------------------------------------------------------
(* Properties of the abort flag *)

\* C30: the flag of every connection starts false; a step that raises it
\* is that connection's abort notification; and no step lowers it.
C30_AbortFlagOneWay ==
  /\ \A c \in Conns : ~aborted[c]
  /\ [][\A c \in Conns :
          /\ aborted[c] => aborted'[c]
          /\ (~aborted[c] /\ aborted'[c]) => Abort(c)]_vars

\* A connection aborted while its body was being resolved has finished
\* with its flag still set, and another, never aborted, has its flag
\* still down after its response was written.
C30_Witness ==
  \E c, d \in Conns :
    /\ aborted[c] /\ abortedAt[c] = "bodyPending" /\ pc[c] = "done"
    /\ ~aborted[d] /\ pc[d] = "done" /\ wr[d] # <<>>

----------------------------------------------------------------------------
(* Properties of the message step *)

\* C31: a message delivered on a session that has a stored callback set
\* with onMessage makes exactly one onMessage call, with the bytes when the
\* binary flag is set and with the decoded text otherwise; on a session
\* with no stored callback set, or none with onMessage, it calls nothing,
\* closes nothing and raises nothing.
C31_MessageDispatch ==
  [][\A s \in Sessions :
       sess'[s].recv = sess[s].recv + 1 =>
         LET x == sess[s]
             m == MsgAt(x.recv + 1)
         IN IF x.events # Nil /\ x.events[1].onMessage
            THEN sess'[s].log =
                   Append(x.log, Call("onMessage", 0,
                                      IF m.isBinary THEN "bytes" ELSE "string", m.data))
            ELSE /\ sess'[s].log = x.log
                 /\ sess'[s].closed = x.closed
                 /\ sess'[s].escaped = x.escaped
                 /\ sess'[s].pc = x.pc]_vars

\* One session got a text message and then a binary one through
\* onMessage.
C31_Witness ==
  \E s \in Sessions :
    LET msgs == CallsOf(sess[s].log, "onMessage")
    IN /\ Len(msgs) >= 2
       /\ msgs[1].kind = "string" /\ msgs[2].kind = "bytes"
       /\ ~sess[s].closed

----------------------------------------------------------------------------
(* Properties of the session's user data *)

\* C32: once a session is upgraded, no step changes its captured url or
\* header pairs; the callback set and the context are the only fields of
\* the user data that change, they are attached together, once, by the
\* step of the open sequence in which the awaited handler factory returns,
\* and they are never changed or removed afterwards.
C32_UserDataFrame ==
  [][\A s \in Sessions :
       sess[s].pc # "none" =>
         /\ sess'[s].url = sess[s].url
         /\ sess'[s].headers = sess[s].headers
         /\ (sess'[s].events # sess[s].events \/ sess'[s].context # sess[s].context) =>
              /\ sess[s].pc = "awaitHandler"
              /\ Len(CallsOf(sess[s].log, "factory")) = 1
              /\ sess[s].events = Nil /\ ~sess[s].context
              /\ sess'[s].events # Nil /\ sess'[s].context]_vars

\* A session with its callback set attached got a message and was closed
\* by the peer, its url and header pairs being those of the upgrade.
C32_Witness ==
  \E s \in Sessions :
    LET x == sess[s]
    IN /\ x.events # Nil /\ x.context
       /\ x.closedBy = "peer" /\ x.recv >= 1
       /\ x.url = UrlString(Protocol, Host, "/ws", "b=1")
       /\ x.headers = UpgradeHeaders

----------------------------------------------------------------------------
(* Properties of a failed body resolution *)

\* C33: when the resolution of the body fails in the async writer,
\* nothing is written for that response: no status, no header, no end.
C33_FailedBodyNoWrite ==
  \A c \in Conns : "body" \in unhandled[c] => wr[c] = <<>>

\* On a connection never aborted the body of a stream response failed to
\* resolve, and the request finished with nothing written.
C33_Witness ==
  \E c \in Conns :
    /\ "body" \in unhandled[c] /\ pc[c] = "done" /\ ~aborted[c]
    /\ orig[c][1].body.kind = "stream" /\ asyncCtx[c] # Nil
    /\ wr[c] = <<>>

----------------------------------------------------------------------------
(* Properties of the pass through the application *)

\* C34: the handler factory is called for a session only after the
\* application answered 101 to that session's own synthetic pass.
C34_FactoryOnlyAfterOwnPass ==
  \A s \in Sessions :
    Len(CallsOf(sess[s].log, "factory")) > 0 =>
      (sess[s].appCalls = 1 /\ sess[s].status = StatusSwitching)

----------------------------------------------------------------------------
(* Properties of messages and closes that meet the open sequence *)

\* C35: on a session whose callback set defines onMessage, every message
\* the transport delivered, the ones delivered during the open sequence
\* included, reached onMessage.
C35_NoMessageDropped ==
  \A s \in Sessions :
    (sess[s].events # Nil /\ sess[s].events[1].onMessage) =>
      Len(CallsOf(sess[s].log, "onMessage")) = sess[s].recv

\* C36: on a session whose callback set defines onOpen and onClose,
\* onClose is never called before onOpen, and once the session is closed
\* and its open sequence has ended, an onOpen call is followed by exactly
\* one onClose call.
C36_OpenClosePaired ==
  \A s \in Sessions :
    LET x == sess[s]
    IN (x.events # Nil /\ x.events[1].onOpen /\ x.events[1].onClose) =>
         /\ \A i, j \in 1..Len(x.log) :
              (x.log[i].ev = "onOpen" /\ x.log[j].ev = "onClose") => i < j
         /\ (x.closed /\ OpenDone(x) /\ Len(CallsOf(x.log, "onOpen")) > 0) =>
              Len(CallsOf(x.log, "onClose")) = 1

----------------------------------------------------------------------------
(* Properties of header changes across the clearing of the triple *)

\* C37: a header set through the headers accessor, while the response
\* held its triple or after, is among the headers the async path writes,
\* and the status read before is the status written.
C37_HeaderChangesKept ==
  rsp.slow # Nil =>
    /\ rsp.setWith # "none" =>
         WritesHeader(rsp.slow[1], Lower(AddedHeader[1]), AddedHeader[2])
    /\ rsp.lastStatus # Nil => rsp.slow[1][1] = WriteStatus(rsp.lastStatus[1].status)

----------------------------------------------------------------------------
\* C38: under fair scheduling, every request whose connection is never
\* aborted, whose application promise does not reject and whose body
\* resolution does not fail eventually has exactly one write batch, and
\* that batch is complete: a status line, headers, and the end call last.
Answered(c) == Len(wr[c]) = 1 /\ WellFormedBatch(wr[c][1])

C38_EventuallyAnswered ==
  \A c \in Conns :
    (pc[c] # "idle") ~> (aborted[c] \/ unhandled[c] # {} \/ Answered(c))

\* A request that went through the awaited body resolution, never aborted
\* and with nothing rejected, holding its one complete batch.
C38_Witness ==
  \E c \in Conns :
    /\ pc[c] = "done"
    /\ ~aborted[c]
    /\ unhandled[c] = {}
    /\ asyncCtx[c] # Nil
    /\ orig[c] # Nil /\ orig[c][1].body.kind = "stream"
    /\ Answered(c)

----------------------------------------------------------------------------
\* C39: the request given to the application carries a body stream exactly
\* when its upper-cased method is none of GET, HEAD and OPTIONS; for those
\* three the body is null, no bridge is created, no data callback is
\* registered on the connection, and so no chunk is ever taken from it.
BodylessMethods == {"GET", "HEAD", "OPTIONS"}

C39_BodyIffNotBodyless ==
  bs.started =>
    /\ bs.method = ToUpperCase(bs.raw)
    /\ (bs.body = "stream") <=> (bs.method \notin BodylessMethods)
    /\ (bs.body = "stream") <=> (bs.made /\ bs.onData)
    /\ bs.method \in BodylessMethods =>
         /\ bs.body = "null"
         /\ ~bs.made /\ ~bs.onData
         /\ bs.wstate = "none"
         /\ bs.delivered = <<>> /\ bs.queue = <<>> /\ bs.got = <<>>

\* An OPTIONS request, as the transport names it, handled without a bridge
\* and aborted afterwards; the handler's flag is the one that is set.
C39_Witness ==
  /\ bs.started /\ bs.raw = "options" /\ bs.method = "OPTIONS"
  /\ bs.body = "null" /\ ~bs.onData
  /\ bs.notified /\ bs.aborted

----------------------------------------------------------------------------
\* C40: a factory is called for a session of this server only if this
\* server's own application declares it for the session's path; on a path
\* its application has no WebSocket route for, no factory is ever called,
\* and where the application answers such a path (with a 404, or with a 101
\* that registers nothing) the open sequence ends with the bridge closing
\* the session with 1008, whatever another instance has registered.
C40_NoForeignFactory ==
  \A s \in Sessions :
    LET x == sess[s]
        path == Pathname(x.url)
        ends == CallsOf(x.log, "end")
    IN x.pc \notin {"none"} =>
         /\ x.handler # Nil => x.handler[1] \in RouteFactories(path)
         /\ AppRoute(path).kind # "ws" => Len(CallsOf(x.log, "factory")) = 0
         /\ (AppRoute(path).kind \in {"plain", "bare"} /\ x.pc \in {"opened", "ended"}) =>
              /\ x.pc = "ended"
              /\ Len(ends) >= 1 /\ ends[1].code = ClosePolicy

====
